---- MODULE Spec2Model ----
(***************************************************************************)
(* Verification model of the realtime Twilio <-> voice-agent bridges.      *)
(*                                                                         *)
(*   media_ws      (src/cli/test1.py)        network relay with a paced    *)
(*                                           outbound queue and local      *)
(*                                           amplitude barge-in            *)
(*   NoUIDemo      (src/cli/demo.py)         local-speaker jitter buffer   *)
(*   TwilioHandler (src/twilio/twilio_handler.py) inbound audio buffering, *)
(*                                           marks, life cycle             *)
(*   TwilioWebSocketManager (src/twilio/server.py) handler registry        *)
(*   AudioBridge   (src/cli/test1.py)        resampling and framing        *)
(*                                                                         *)
(* Each program is a specification of its own (SpecMedia, SpecDemo,        *)
(* SpecMic, SpecInbound, SpecOutbound, SpecLife, SpecRegistry, SpecBridge, *)
(* SpecMediaTasks, ...); the variables of the other programs keep their    *)
(* initial values.  asyncio tasks are modelled at their suspension points: the     *)
(* code between two awaits that really suspend is one action.  An          *)
(* "async with to_caller_lock" on a free asyncio.Lock does not suspend,    *)
(* and no await happens while the lock is held, so the lock is free        *)
(* whenever a task runs and the locked blocks are part of the enclosing    *)
(* action.  The threads of NoUIDemo are preemptive: one action per         *)
(* atomic queue operation or attribute access.                             *)
(***************************************************************************)
EXTENDS Integers, Sequences, FiniteSets, TLC

\* ------------------------------------------------------------------ bounds
\* agent 'audio' events per media_ws session
MaxChunks == 2
\* inbound 'media' messages per media_ws session
MaxMedia == 1
\* a capacity N for the relay queue, as the design gives it (the code has none)
RelayCapacity == 2
\* 'audio' events per NoUIDemo run
MaxDemoChunks == 4
\* inbound 'media' payloads per TwilioHandler session
MaxPayloads == 3
\* session.send_audio calls that raise, per TwilioHandler session
MaxSendFailures == 1
\* agent session events per TwilioHandler session
MaxEvents == 2
\* 'mark' messages per TwilioHandler session
MaxAcks == 2
\* invocations of wait_until_done / _cleanup_tasks per TwilioHandler
MaxCleanups == 2
\* calls made on one AudioBridge
MaxBridgeCalls == 4
\* events / messages a media_ws task handles before the teardown is looked at
MaxMwSteps == 2
\* 'media' payloads that do not decode, per handler
MaxMalformed == 1
\* input callbacks entered in one run
MaxMicFrames == 2
\* calls of _flush_audio_buffer followed step by step
MaxFlushCalls == 3
\* bridge calls made by the connections of one run
MaxSessionCalls == 4
\* demo.py sets MAX_QUEUE = 128 and PREROLL_CHUNKS = 8; the model keeps
\* PREROLL_CHUNKS < MAX_QUEUE at a depth the model can fill
MAX_QUEUE == 3
PREROLL_CHUNKS == 2

\* --------------------------------------------------------------- constants
TWILIO_SR == 8000
MODEL_SR == 24000
FRAME_MS == 20
BYTES_PER_SAMPLE == 2
VAD_PEAK == 2000
\* demo.py: blocksize = int(SAMPLE_RATE * CHUNK_LENGTH_S), 24000 Hz * 20 ms
blocksize == 480
\* TwilioHandler: SAMPLE_RATE = 8000, CHUNK_LENGTH_S = 0.09 (in ms here)
SAMPLE_RATE == 8000
CHUNK_LENGTH_MS == 90
\* _handle_history_audio: chunk_size = 4000
chunk_size == 4000
\* _fallback_text_to_speech: beep_samples = 8000
beep_samples == 8000

None == "None"
NoState == <<>>

VARIABLES
    \* ---- media_ws (src/cli/test1.py) ----
    stream_sid,        \* nonlocal stream_sid
    is_playing_tts,    \* nonlocal is_playing_tts
    to_caller,         \* deque of frames waiting for the pacing loop
    to_model_state,    \* bridge._to_model_state  (ratecv phase, 8k -> 24k)
    to_caller_state,   \* bridge._to_caller_state (ratecv phase, 24k -> 8k)
    pm_pc,             \* pump_model_events: "wait" | "done" | "cancelled"
    fl_pc,             \* flush_to_caller: "sleep" | "sending" | "cancelled"
    rd_pc,             \* read_from_twilio: "recv" | "cancel" | "send_audio" | "done" | "cancelled"
    rd_pcm,            \* local pcm16_24k of the message being processed
    rd_peak,           \* audioop.max of that pcm16_24k
    ws_out,            \* 'media' messages handed to ws.send_text, in order (their
                       \* streamSid is stream_sid at that moment, never None)
    agent_in,          \* what the agent session was sent: audio and control events
    \* history of the media_ws session (observers, not program state)
    nchunks,           \* number of 'audio' events handled
    produced,          \* produced[c] = frames the bridge returned for chunk c
    enq,               \* every frame appended to to_caller, in order
    flushed,           \* frames removed by to_caller.clear()
    popped,            \* frames removed by to_caller.popleft()
    barge,             \* the barge-in being processed / last processed
    streak,            \* interruptions fired back to back
    utt,               \* the utterance scenario being observed
    nmedia,            \* number of inbound 'media' messages received
    m_pc,              \* media_ws body: "wait" | "closing" | "ended"
    \* ---- NoUIDemo (src/cli/demo.py) ----
    output_queue,          \* queue.Queue(maxsize=MAX_QUEUE) of chunks
    current_audio_chunk,   \* chunk being played, NoChunk for None
    chunk_position,        \* samples of it already played
    interrupt_event,       \* threading.Event
    ready_to_play,         \* preroll passed
    demo_is_playing_tts,   \* self.is_playing_tts
    block_mic,             \* self.block_mic
    ev_pc,                 \* event-loop thread inside _on_event
    np_audio,              \* chunk of the 'audio' event being handled
    cb_pc,                 \* audio driver thread inside _output_callback
    samples_filled,        \* local of the playback loop
    outdata,               \* ids of the chunks written to this callback's buffer
    \* history of the demo (observers)
    arrived,               \* number of 'audio' events handled
    queued,                \* ids of the chunks that were put into output_queue
    preroll_due,           \* history: an interrupt flush has returned and the queue has
                           \* not held PREROLL_CHUNKS chunks since
    ended_at,              \* history: chunks arrived when the last 'audio_end' came
    \* ---- TwilioHandler, inbound path (src/twilio/twilio_handler.py) ----
    audio_buffer,          \* self._audio_buffer: the payloads it holds, in order
    since_send,            \* time.time() - self._last_buffer_send_time, in units
                           \* of CHUNK_LENGTH_S, saturating above 2
    ml_pc,                 \* _twilio_message_loop: "recv" | "send"
    ml_data,               \* buffer_data of its _flush_audio_buffer call
    bf_pc,                 \* _buffer_flush_loop: "sleep" | "ready" | "send"
    bf_data,               \* buffer_data of its _flush_audio_buffer call
    send_audio_calls,      \* session.send_audio calls, in call order
    \* history of the handler (observers)
    nrecv,                 \* number of 'media' payloads received
    malformed_at,          \* for each 'media' payload that did not decode: nrecv, the
                           \* buffer's length, the mark table's size, the stream id then
    \* ---- TwilioHandler, outbound path and marks ----
    ep_pc,                 \* media_stream_endpoint: "wait" | "returned"
    handler_stream_sid,    \* self._stream_sid
    mark_counter,          \* self._mark_counter
    mark_data,             \* self._mark_data: mark name -> (item_id, content_index, byte_count)
    processed_audio_items, \* self._processed_audio_items
    rt_pc,                 \* _realtime_session_loop: "wait" | "audio_media" | "audio_mark"
                           \* | "hist_media" | "hist_mark" | "fallback_media"
    rt_ev,                 \* the audio its handler is sending: item, index, length, offset
    twilio_out,            \* messages handed to twilio_websocket.send_text, in order
    tw_open,               \* the transport connection is up
    play_calls,            \* playback_tracker.on_play_bytes calls, in order
    \* history of the handler's outbound side (observers)
    bound_sid,             \* streamSid of the 'start' the endpoint received
    emitted,               \* emitted[item] = bytes of the item's 'audio' events
    marked,                \* marked[name] = item and bytes transmitted under the mark
    nevents,               \* agent session events handled
    nacks,                 \* 'start' and 'mark' messages handled
    ack_kinds,             \* kinds of 'mark' names seen: "pending", "consumed", "unknown"
    \* ---- TwilioHandler, life cycle ----
    start_pc,              \* start(): "new" | "entering" | "started" | "failed"
    session,               \* self.session: "None" | "created" | "entered" | "closed"
    tasks,                 \* the four task attributes: "unset" | "None" | "running"
                           \* | "done" | "cancelled" | "killed"
    twilio_websocket,      \* the provider's connection: "up" | "stopped" | "dropped"
    wd_pc,                 \* wait_until_done / _cleanup_tasks: "idle" | "await_loop"
                           \* | "cleanup" | "closing" | "raised"
    cleanup_i,             \* position in tasks_to_cancel
    close_calls,           \* session.close() invocations
    ncleanup,              \* invocations of wait_until_done / _cleanup_tasks
    process,               \* the server process: "up" | "exited"
    other_session,         \* another session of the same process: "running" | "terminated"
    \* ---- TwilioWebSocketManager and media_stream_endpoint (src/twilio/server.py) ----
    call_sessions,         \* manager.call_sessions: its keys
    pending_handlers,      \* manager.pending_handlers: call sid -> handler
    active_handlers,       \* manager.active_handlers: stream sid -> handler
    calling_websockets,    \* manager.calling_websockets: its keys
    current_call_sid,      \* calling_websocket_endpoint: its local, "closed" once it returned
    conn_pc,               \* media_stream_endpoint of each connection: "recv" | "starting"
                           \* | "notify" | "returned"
    conn_call,             \* its local call_sid
    conn_stream,           \* its local stream_sid
    conn_handler,          \* its local handler
    running,               \* handlers whose start() has created the background tasks
    \* ---- AudioBridge on its own (src/cli/test1.py) ----
    br_to_model_state,     \* self._to_model_state
    br_to_caller_state,    \* self._to_caller_state
    br_frames,             \* mu-law byte count of each frame the last encode call returned
    br_last8k,             \* len(lin16_8k) in the last encode call
    \* history of the bridge (observers)
    br_log,                \* the calls made so far: method and input length
    br_total8k,            \* bytes of 8 kHz PCM the resampler has produced in encode calls
    br_nframes,            \* frames returned by encode calls
    br_k,                  \* 20 ms mu-law frames given to decode calls
    \* ---- media_ws, tasks and teardown (src/cli/test1.py) ----
    mw_tasks,              \* the three tasks: "running" | "done" | "cancelling" (cancel()
                           \* called, CancelledError not yet raised in it) | "cancelled"
    mw_pc,                 \* media_ws body: "wait" | "exiting" | "ws_close" | "returned"
    mw_session,            \* the agent session: "open" | "closed"
    mw_ws,                 \* the transport: "open" | "closed"
    mw_events,             \* agent events pump_model_events has handled
    mw_msgs,               \* messages read_from_twilio has handled
    \* history of the teardown (observers)
    mw_bad,                \* tasks that met a malformed audio chunk
    mw_other,              \* a task ended for another reason (stop, disconnect, ...)
    \* ---- NoUIDemo._input_callback (demo.py, microphone thread) ----
    mic_pc,                \* position of the input callback
    mic_entry,             \* the two flags as they stood when the callback was entered
    mic_saw,               \* what the callback read: block_mic, then is_playing_tts
    mic_sent,              \* frames handed to session.send_audio, with both records
    mic_frames,            \* callbacks entered so far
    \* ---- TwilioHandler._flush_audio_buffer, one call (twilio_handler.py) ----
    fa_pc,                 \* position of the call: "idle" | "send" | "close"
    fa_session,            \* self.session: "None" | "open" | "closed"
    fa_entry,              \* the buffer, the time since the last send and the number
                           \* of send_audio calls, at entry
    fa_raised,             \* an exception left _flush_audio_buffer
    fa_calls,              \* calls of _flush_audio_buffer so far
    fa_failed,             \* calls whose send_audio raised
    \* ---- media_ws, the AudioBridge of each connection (test1.py) ----
    bs_open,               \* connections that media_ws has accepted
    bs_state,              \* per AudioBridge instance: _to_model_state and _to_caller_state
    bs_log                 \* the bridge calls made so far: direction, connection, byte count

mediaVars == <<stream_sid, is_playing_tts, to_caller, to_model_state, to_caller_state,
               pm_pc, fl_pc, rd_pc, rd_pcm, rd_peak, ws_out, agent_in,
               nchunks, produced, enq, flushed, popped, barge, streak, utt, nmedia, m_pc>>

demoVars == <<output_queue, current_audio_chunk, chunk_position, interrupt_event,
              ready_to_play, demo_is_playing_tts, block_mic, ev_pc, np_audio, cb_pc,
              samples_filled, outdata, arrived, queued, preroll_due, ended_at>>

inbVars == <<audio_buffer, since_send, ml_pc, ml_data, bf_pc, bf_data, send_audio_calls,
             nrecv, malformed_at>>

outVars == <<ep_pc, handler_stream_sid, mark_counter, mark_data, processed_audio_items,
             rt_pc, rt_ev, twilio_out, tw_open, play_calls, bound_sid, emitted, marked,
             nevents, nacks, ack_kinds>>

lifeVars == <<start_pc, session, tasks, twilio_websocket, wd_pc, cleanup_i, close_calls,
              ncleanup, process, other_session>>

regVars == <<call_sessions, pending_handlers, active_handlers, calling_websockets,
             current_call_sid, conn_pc, conn_call, conn_stream, conn_handler, running>>

brVars == <<br_to_model_state, br_to_caller_state, br_frames, br_last8k, br_log,
            br_total8k, br_nframes, br_k>>

mwVars == <<mw_tasks, mw_pc, mw_session, mw_ws, mw_events, mw_msgs, mw_bad, mw_other>>

micVars == <<mic_pc, mic_entry, mic_saw, mic_sent, mic_frames>>

flushVars == <<fa_pc, fa_session, fa_entry, fa_raised, fa_calls, fa_failed>>

sessVars == <<bs_open, bs_state, bs_log>>

vars == <<mediaVars, demoVars, inbVars, outVars, lifeVars, regVars, brVars, mwVars,
          micVars, flushVars, sessVars>>

\* what the actions of one program leave alone
notMedia == <<demoVars, inbVars, outVars, lifeVars, regVars, brVars, mwVars, micVars,
            flushVars, sessVars>>
notDemo == <<mediaVars, inbVars, outVars, lifeVars, regVars, brVars, mwVars, micVars,
            flushVars, sessVars>>
notInb == <<mediaVars, demoVars, outVars, lifeVars, regVars, brVars, mwVars, micVars,
            flushVars, sessVars>>
notLife == <<mediaVars, demoVars, inbVars, outVars, regVars, brVars, mwVars, micVars,
            flushVars, sessVars>>
notReg == <<mediaVars, demoVars, inbVars, outVars, lifeVars, brVars, mwVars, micVars,
            flushVars, sessVars>>
notBridge == <<mediaVars, demoVars, inbVars, outVars, lifeVars, regVars, mwVars, micVars,
            flushVars, sessVars>>
notMw == <<mediaVars, demoVars, inbVars, outVars, lifeVars, regVars, brVars, micVars,
            flushVars, sessVars>>
notMic == <<mediaVars, demoVars, inbVars, outVars, lifeVars, regVars, brVars, mwVars,
            flushVars, sessVars>>
\* (_flush_audio_buffer works on the inbound buffer)
notFlush == <<mediaVars, demoVars, outVars, lifeVars, regVars, brVars, mwVars, micVars,
            sessVars>>
notSess == <<mediaVars, demoVars, inbVars, outVars, lifeVars, regVars, brVars, mwVars,
             micVars, flushVars>>
\* (the outbound side shares the message loop, ml_pc, with the inbound side)
notOut == <<mediaVars, demoVars, audio_buffer, since_send, ml_data, bf_pc, bf_data,
            send_audio_calls, nrecv, malformed_at, lifeVars, regVars, brVars, mwVars, micVars,
            flushVars, sessVars>>

\* ------------------------------------------------------------------ helpers
Range(s) == {s[i] : i \in 1..Len(s)}

Min(a, b) == IF a <= b THEN a ELSE b

RECURSIVE Gcd(_, _)
Gcd(a, b) == IF b = 0 THEN a ELSE Gcd(b, a % b)

\* audioop.ratecv on a mono stream of nsamp samples: the rates are reduced by
\* their gcd, the phase d starts at -outrate, every input sample adds outrate
\* to d and one output sample is written (d -= inrate) while d >= 0.
\* Returns the number of output samples and the state <<d>> kept for the next
\* call; a state of None (NoState) stands for a fresh converter.
ratecv(nsamp, inrate0, outrate0, state) ==
    LET g == Gcd(inrate0, outrate0)
        inrate == inrate0 \div g
        outrate == outrate0 \div g
        d0 == IF state = NoState THEN -outrate ELSE state[1]
        nout == IF nsamp = 0 THEN 0 ELSE ((d0 + nsamp * outrate) \div inrate) + 1
    IN  [n |-> nout, state |-> <<d0 + nsamp * outrate - nout * inrate>>]

\* mutant of twilio_ulaw_to_model_pcm16: the samples are not brought to 24 kHz
twilio_ulaw_to_model_pcm16_same_rate(nbytes, state) ==
    ratecv(nbytes, TWILIO_SR, TWILIO_SR, state)

\* AudioBridge.twilio_ulaw_to_model_pcm16: ulaw2lin gives one 16-bit sample per
\* mu-law byte, then 8k -> 24k.  Result: sample count of the 24k PCM and state.
twilio_ulaw_to_model_pcm16(nbytes, state) ==
    ratecv(nbytes, TWILIO_SR, MODEL_SR, state)

frame_bytes == ((TWILIO_SR * FRAME_MS) \div 1000) * BYTES_PER_SAMPLE

\* AudioBridge.model_pcm16_to_twilio_ulaw_chunks: 24k -> 8k, then one frame per
\* full 320 bytes of the resampled chunk; the loop breaks at a short tail.
\* Result: the number of frames returned and the resampler state.
model_pcm16_to_twilio_ulaw_chunks(nbytes, state) ==
    LET r == ratecv(nbytes \div BYTES_PER_SAMPLE, MODEL_SR, TWILIO_SR, state)
    IN  [frames |-> (r.n * BYTES_PER_SAMPLE) \div frame_bytes, state |-> r.state]

\* the frames of chunk c, in the order the bridge returns them
ChunkFrames(c, k) == [i \in 1..k |-> <<c, i>>]

RECURSIVE FramesOf(_, _, _)
FramesOf(prod, lo, hi) ==
    IF lo > hi THEN <<>> ELSE ChunkFrames(lo, prod[lo]) \o FramesOf(prod, lo + 1, hi)

RECURSIVE IsSubSeq(_, _)
\* s is t with some elements left out, the rest in t's order
IsSubSeq(s, t) ==
    IF s = <<>> THEN TRUE
    ELSE IF t = <<>> THEN FALSE
    ELSE IF Head(s) = Head(t) THEN IsSubSeq(Tail(s), Tail(t))
    ELSE IsSubSeq(s, Tail(t))

\* ======================================================================
\* media_ws  (src/cli/test1.py)
\* ======================================================================

\* byte lengths of the PCM16@24k chunks an 'audio' event may carry:
\* 10 ms (no full frame), 20 ms plus one sample, 40 ms
ChunkLens == {480, 962, 1920}
\* mu-law byte count of an inbound 'media' payload: one 20 ms frame
MediaLens == {160}
\* audioop.max of the decoded frame: silence, at the threshold, above it
PeakSet == {0, VAD_PEAK, VAD_PEAK + 1}
StreamSids == {"MZ1", "MZ2"}

NoBarge == [active |-> FALSE, clean |-> TRUE, done |-> FALSE,
            snap |-> {}, sent_mark |-> 0, enq_mark |-> 0]
NoUtt == [st |-> "none", rises |-> 0, falls |-> 0, chunks |-> 0]

\* the utterance observer counts the edges of is_playing_tts while it is open
Edges(u, old, new) ==
    IF u.st = "open"
    THEN [u EXCEPT !.rises = @ + (IF ~old /\ new THEN 1 ELSE 0),
                   !.falls = @ + (IF old /\ ~new THEN 1 ELSE 0)]
    ELSE u

Push(s, k) == IF Len(s) < 2 THEN Append(s, k) ELSE s

media_ws_init ==
    /\ stream_sid = None
    /\ is_playing_tts = FALSE
    /\ to_caller = <<>>
    /\ to_model_state = NoState
    /\ to_caller_state = NoState
    /\ pm_pc = "wait"
    /\ fl_pc = "sleep"
    /\ rd_pc = "recv"
    /\ rd_pcm = None
    /\ rd_peak = 0
    /\ ws_out = <<>>
    /\ agent_in = <<>>
    /\ nchunks = 0
    /\ produced = <<>>
    /\ enq = <<>>
    /\ flushed = {}
    /\ popped = {}
    /\ barge = NoBarge
    /\ streak = <<>>
    /\ utt = NoUtt
    /\ nmedia = 0
    /\ m_pc = "wait"

\* ---- pump_model_events -------------------------------------------------

\* et == "agent_start"
pump_agent_start ==
    /\ pm_pc = "wait"
    /\ is_playing_tts' = TRUE
    /\ utt' = IF ~is_playing_tts
              THEN [st |-> "open", rises |-> 1, falls |-> 0, chunks |-> 0]
              ELSE [NoUtt EXCEPT !.st = "dirty"]
    /\ streak' = <<>>
    /\ barge' = IF barge.active THEN [barge EXCEPT !.clean = FALSE] ELSE barge
    /\ UNCHANGED <<stream_sid, to_caller, to_model_state, to_caller_state, pm_pc, fl_pc,
                   rd_pc, rd_pcm, ws_out, agent_in, nchunks, produced, enq, flushed,
                   popped, nmedia, m_pc, rd_peak, notMedia>>

\* mutant of extend: the frames are put in front of the queue
extendleft(q, chunks) == chunks \o q

\* to_caller.extend(chunks)
extend(q, chunks) == q \o chunks

\* et == "audio"
pump_audio(nbytes) ==
    /\ pm_pc = "wait"
    /\ nchunks < MaxChunks
    /\ LET conv == model_pcm16_to_twilio_ulaw_chunks(nbytes, to_caller_state)
           chunks == ChunkFrames(nchunks + 1, conv.frames)
       IN  /\ to_caller_state' = conv.state
           /\ to_caller' = extend(to_caller, chunks)
           /\ enq' = enq \o chunks
           /\ produced' = Append(produced, conv.frames)
    /\ nchunks' = nchunks + 1
    /\ utt' = IF utt.st = "open" THEN [utt EXCEPT !.chunks = @ + 1]
              ELSE IF utt.st = "closed" THEN NoUtt ELSE utt
    /\ streak' = <<>>
    /\ barge' = IF barge.active THEN [barge EXCEPT !.clean = FALSE] ELSE barge
    /\ UNCHANGED <<stream_sid, is_playing_tts, to_model_state, pm_pc, fl_pc, rd_pc, rd_pcm,
                   ws_out, agent_in, flushed, popped, nmedia, m_pc, rd_peak, notMedia>>

\* et == "audio_end"
pump_audio_end ==
    /\ pm_pc = "wait"
    /\ is_playing_tts' = FALSE
    /\ utt' = IF utt.st = "open"
              THEN [Edges(utt, is_playing_tts, FALSE) EXCEPT !.st = "closed"]
              ELSE NoUtt
    /\ streak' = <<>>
    /\ barge' = IF barge.active THEN [barge EXCEPT !.clean = FALSE] ELSE barge
    /\ UNCHANGED <<stream_sid, to_caller, to_model_state, to_caller_state, pm_pc, fl_pc,
                   rd_pc, rd_pcm, ws_out, agent_in, nchunks, produced, enq, flushed,
                   popped, nmedia, m_pc, rd_peak, notMedia>>

\* mutant of pump_audio_interrupted: the flag is reset, the queue is kept
pump_audio_interrupted_keeps_queue ==
    /\ pm_pc = "wait"
    /\ is_playing_tts' = FALSE
    /\ utt' = IF utt.st = "open" THEN [utt EXCEPT !.st = "dirty"] ELSE NoUtt
    /\ streak' = Push(streak, "agent")
    /\ UNCHANGED <<stream_sid, to_caller, to_model_state, to_caller_state, pm_pc, fl_pc, rd_pc,
                   rd_pcm, rd_peak, ws_out, agent_in, nchunks, produced, enq, flushed, popped,
                   barge, nmedia, m_pc, notMedia>>

\* et == "audio_interrupted"
pump_audio_interrupted ==
    /\ pm_pc = "wait"
    /\ is_playing_tts' = FALSE
    /\ to_caller' = <<>>
    /\ flushed' = flushed \cup Range(to_caller)
    /\ utt' = IF utt.st = "open" THEN [utt EXCEPT !.st = "dirty"] ELSE NoUtt
    /\ streak' = Push(streak, "agent")
    /\ UNCHANGED <<stream_sid, to_model_state, to_caller_state, pm_pc, fl_pc, rd_pc, rd_pcm,
                   ws_out, agent_in, nchunks, produced, enq, popped, barge, nmedia, m_pc, rd_peak, notMedia>>

\* et == "error", or any event type without a branch: logged, nothing changes
pump_error ==
    /\ pm_pc = "wait"
    /\ UNCHANGED vars

\* the agent session's event stream ends: the "async for" falls through
pump_end ==
    /\ pm_pc = "wait"
    /\ pm_pc' = "done"
    /\ UNCHANGED <<stream_sid, is_playing_tts, to_caller, to_model_state, to_caller_state,
                   fl_pc, rd_pc, rd_pcm, ws_out, agent_in, nchunks, produced, enq, flushed,
                   popped, barge, streak, utt, nmedia, m_pc, rd_peak, notMedia>>

\* ---- flush_to_caller ---------------------------------------------------

\* to_caller.popleft(): what is left of the deque
popleft(q) == Tail(q)

\* one iteration of the pacing loop up to its next suspension
flush_to_caller ==
    /\ fl_pc = "sleep"
    /\ LET has_frame == to_caller # <<>>
       IN  /\ to_caller' = IF has_frame THEN popleft(to_caller) ELSE to_caller
           /\ popped' = IF has_frame THEN popped \cup {Head(to_caller)} ELSE popped
           /\ IF has_frame /\ stream_sid # None
              THEN /\ ws_out' = Append(ws_out, [event |-> "media",
                                                payload |-> Head(to_caller)])
                   /\ fl_pc' = "sending"
              ELSE /\ ws_out' = ws_out
                   /\ fl_pc' = "sleep"
    /\ UNCHANGED <<stream_sid, is_playing_tts, to_model_state, to_caller_state, pm_pc, rd_pc,
                   rd_pcm, agent_in, nchunks, produced, enq, flushed, barge, streak, utt,
                   nmedia, m_pc, rd_peak, notMedia>>

\* ws.send_text returned; the loop sleeps FRAME_MS
flush_sent ==
    /\ fl_pc = "sending"
    /\ fl_pc' = "sleep"
    /\ UNCHANGED <<stream_sid, is_playing_tts, to_caller, to_model_state, to_caller_state,
                   pm_pc, rd_pc, rd_pcm, ws_out, agent_in, nchunks, produced, enq, flushed,
                   popped, barge, streak, utt, nmedia, m_pc, rd_peak, notMedia>>

\* ---- read_from_twilio --------------------------------------------------

\* et == "start"
read_start(sid) ==
    /\ rd_pc = "recv"
    /\ stream_sid' = sid
    /\ UNCHANGED <<is_playing_tts, to_caller, to_model_state, to_caller_state, pm_pc, fl_pc,
                   rd_pc, rd_pcm, ws_out, agent_in, nchunks, produced, enq, flushed, popped,
                   barge, streak, utt, nmedia, m_pc, rd_peak, notMedia>>

\* a 'media' handler whose barge-in test leaves out is_playing_tts
read_media_ignores_flag(nbytes, pk) ==
    /\ rd_pc = "recv"
    /\ nmedia < MaxMedia
    /\ nmedia' = nmedia + 1
    /\ LET conv == twilio_ulaw_to_model_pcm16(nbytes, to_model_state)
           \* the decoded frame: identified by its arrival number
           pcm16_24k == [type |-> "audio", seq |-> nmedia + 1, n |-> conv.n]
           \* audioop.max(pcm16_24k, BYTES_PER_SAMPLE)
           peak == IF conv.n = 0 THEN 0 ELSE pk
       IN  /\ to_model_state' = conv.state
           /\ rd_pcm' = pcm16_24k
           /\ rd_peak' = peak
           /\ IF peak # 0 /\ peak > VAD_PEAK
              THEN /\ is_playing_tts' = FALSE
                   /\ agent_in' = Append(agent_in, [type |-> "response.cancel"])
                   /\ rd_pc' = "cancel"
                   /\ barge' = [active |-> TRUE, clean |-> TRUE, done |-> FALSE,
                                snap |-> Range(to_caller), sent_mark |-> Len(ws_out),
                                enq_mark |-> Len(enq)]
                   /\ utt' = IF utt.st = "open" THEN [utt EXCEPT !.st = "dirty"] ELSE utt
              ELSE /\ is_playing_tts' = is_playing_tts
                   /\ agent_in' = Append(agent_in, pcm16_24k)
                   /\ rd_pc' = "send_audio"
                   /\ barge' = [barge EXCEPT !.done = FALSE]
                   /\ utt' = utt
    /\ UNCHANGED <<stream_sid, to_caller, to_caller_state, pm_pc, fl_pc, ws_out, nchunks,
                   produced, enq, flushed, popped, streak, m_pc, notMedia>>

\* et == "media", up to the first await: decode, amplitude check, and either
\* the start of the barge-in (flag, response.cancel) or send_audio
read_media(nbytes, pk) ==
    /\ rd_pc = "recv"
    /\ nmedia < MaxMedia
    /\ nmedia' = nmedia + 1
    /\ LET conv == twilio_ulaw_to_model_pcm16(nbytes, to_model_state)
           \* the decoded frame: identified by its arrival number
           pcm16_24k == [type |-> "audio", seq |-> nmedia + 1, n |-> conv.n]
           \* audioop.max(pcm16_24k, BYTES_PER_SAMPLE)
           peak == IF conv.n = 0 THEN 0 ELSE pk
       IN  /\ to_model_state' = conv.state
           /\ rd_pcm' = pcm16_24k
           /\ rd_peak' = peak
           /\ IF is_playing_tts /\ peak # 0 /\ peak > VAD_PEAK
              THEN /\ is_playing_tts' = FALSE
                   /\ agent_in' = Append(agent_in, [type |-> "response.cancel"])
                   /\ rd_pc' = "cancel"
                   /\ barge' = [active |-> TRUE, clean |-> TRUE, done |-> FALSE,
                                snap |-> Range(to_caller), sent_mark |-> Len(ws_out),
                                enq_mark |-> Len(enq)]
                   /\ utt' = IF utt.st = "open" THEN [utt EXCEPT !.st = "dirty"] ELSE utt
              ELSE /\ is_playing_tts' = is_playing_tts
                   /\ agent_in' = Append(agent_in, pcm16_24k)
                   /\ rd_pc' = "send_audio"
                   /\ barge' = [barge EXCEPT !.done = FALSE]
                   /\ utt' = utt
    /\ UNCHANGED <<stream_sid, to_caller, to_caller_state, pm_pc, fl_pc, ws_out, nchunks,
                   produced, enq, flushed, popped, streak, m_pc, notMedia>>

\* mutant of read_after_cancel: send_audio without clearing the queue
read_after_cancel_keeps_queue ==
    /\ rd_pc = "cancel"
    /\ agent_in' = Append(agent_in, rd_pcm)
    /\ rd_pc' = "send_audio"
    /\ barge' = [NoBarge EXCEPT !.done = TRUE]
    /\ streak' = IF barge.clean THEN Push(streak, "local") ELSE <<>>
    /\ UNCHANGED <<stream_sid, is_playing_tts, to_caller, to_model_state, to_caller_state,
                   pm_pc, fl_pc, rd_pcm, rd_peak, ws_out, nchunks, produced, enq, flushed,
                   popped, utt, nmedia, m_pc, notMedia>>

\* session.send_event returned: clear the queue, then send_audio
read_after_cancel ==
    /\ rd_pc = "cancel"
    /\ to_caller' = <<>>
    /\ flushed' = flushed \cup Range(to_caller)
    /\ agent_in' = Append(agent_in, rd_pcm)
    /\ rd_pc' = "send_audio"
    /\ barge' = [NoBarge EXCEPT !.done = TRUE]
    /\ streak' = IF barge.clean THEN Push(streak, "local") ELSE <<>>
    /\ UNCHANGED <<stream_sid, is_playing_tts, to_model_state, to_caller_state, pm_pc, fl_pc,
                   rd_pcm, ws_out, nchunks, produced, enq, popped, utt, nmedia, m_pc, rd_peak, notMedia>>

\* session.send_audio returned: back to ws.receive_text
read_after_send_audio ==
    /\ rd_pc = "send_audio"
    /\ rd_pc' = "recv"
    /\ rd_pcm' = None
    /\ rd_peak' = 0
    /\ UNCHANGED <<stream_sid, is_playing_tts, to_caller, to_model_state, to_caller_state,
                   pm_pc, fl_pc, ws_out, agent_in, nchunks, produced, enq, flushed, popped,
                   barge, streak, utt, nmedia, m_pc, notMedia>>

\* et == "mark": pass
read_mark ==
    /\ rd_pc = "recv"
    /\ UNCHANGED vars

\* et == "stop" (break), or WebSocketDisconnect from ws.receive_text
read_stop ==
    /\ rd_pc = "recv"
    /\ rd_pc' = "done"
    /\ UNCHANGED <<stream_sid, is_playing_tts, to_caller, to_model_state, to_caller_state,
                   pm_pc, fl_pc, rd_pcm, ws_out, agent_in, nchunks, produced, enq, flushed,
                   popped, barge, streak, utt, nmedia, m_pc, rd_peak, notMedia>>

\* ---- media_ws body -----------------------------------------------------

Cancel(pc) == IF pc = "done" THEN pc ELSE "cancelled"

\* asyncio.wait(FIRST_COMPLETED) returned: cancel the pending tasks.  A pending
\* task is suspended at an await, so the CancelledError ends it there.
media_ws_cancel_pending ==
    /\ m_pc = "wait"
    /\ "done" \in {pm_pc, fl_pc, rd_pc}
    /\ pm_pc' = Cancel(pm_pc)
    /\ fl_pc' = Cancel(fl_pc)
    /\ rd_pc' = Cancel(rd_pc)
    /\ m_pc' = "closing"
    /\ UNCHANGED <<stream_sid, is_playing_tts, to_caller, to_model_state, to_caller_state,
                   rd_pcm, ws_out, agent_in, nchunks, produced, enq, flushed, popped, barge,
                   streak, utt, nmedia, rd_peak, notMedia>>

\* the session context manager has exited and ws.close() returned
media_ws_end ==
    /\ m_pc = "closing"
    /\ m_pc' = "ended"
    /\ UNCHANGED <<stream_sid, is_playing_tts, to_caller, to_model_state, to_caller_state,
                   pm_pc, fl_pc, rd_pc, rd_pcm, ws_out, agent_in, nchunks, produced, enq,
                   flushed, popped, barge, streak, utt, nmedia, rd_peak, notMedia>>

MediaNext ==
    \/ pump_agent_start
    \/ \E nbytes \in ChunkLens : pump_audio(nbytes)
    \/ pump_audio_end
    \/ pump_audio_interrupted
    \/ pump_error
    \/ pump_end
    \/ flush_to_caller
    \/ flush_sent
    \/ \E sid \in StreamSids : read_start(sid)
    \/ \E nbytes \in MediaLens, pk \in PeakSet : read_media(nbytes, pk)
    \/ read_after_cancel
    \/ read_after_send_audio
    \/ read_mark
    \/ read_stop
    \/ media_ws_cancel_pending
    \/ media_ws_end


\* ======================================================================
\* NoUIDemo  (src/cli/demo.py)
\* ======================================================================

\* sample counts of the chunks an 'audio' event may carry: one callback
\* block, or two
DemoChunkLens == {480, 960}

NoChunk == [id |-> 0, len |-> 0]

\* ended_at before any 'audio_end', and after an 'audio_interrupted'
NotEnded == 0 - 1

NoUIDemo_init ==
    /\ output_queue = <<>>
    /\ current_audio_chunk = NoChunk
    /\ chunk_position = 0
    /\ interrupt_event = FALSE
    /\ ready_to_play = FALSE
    /\ demo_is_playing_tts = FALSE
    /\ block_mic = FALSE
    /\ ev_pc = "idle"
    /\ np_audio = NoChunk
    /\ cb_pc = "idle"
    /\ samples_filled = 0
    /\ outdata = <<>>
    /\ arrived = 0
    /\ queued = {}
    /\ preroll_due = FALSE
    /\ ended_at = NotEnded

\* ---- _on_event (event-loop thread) -------------------------------------

\* etype == "agent_start": self.is_playing_tts = True
on_agent_start ==
    /\ ev_pc = "idle"
    /\ demo_is_playing_tts' = TRUE
    /\ ev_pc' = "start_block"
    /\ UNCHANGED <<output_queue, current_audio_chunk, chunk_position, interrupt_event,
                   ready_to_play, block_mic, np_audio, cb_pc, samples_filled, outdata,
                   arrived, queued,
                   preroll_due, ended_at, notDemo>>

\* self.block_mic = True
on_agent_start_block ==
    /\ ev_pc = "start_block"
    /\ block_mic' = TRUE
    /\ ev_pc' = "idle"
    /\ UNCHANGED <<output_queue, current_audio_chunk, chunk_position, interrupt_event,
                   ready_to_play, demo_is_playing_tts, np_audio, cb_pc, samples_filled,
                   outdata, arrived, queued,
                   preroll_due, ended_at, notDemo>>

\* etype == "audio": np.frombuffer, then output_queue.put_nowait(np_audio)
on_audio(len) ==
    /\ ev_pc = "idle"
    /\ arrived < MaxDemoChunks
    /\ arrived' = arrived + 1
    /\ LET chunk == [id |-> arrived + 1, len |-> len]
       IN  /\ np_audio' = chunk
           /\ IF Len(output_queue) < MAX_QUEUE
              THEN /\ output_queue' = Append(output_queue, chunk)
                   /\ queued' = queued \cup {chunk.id}
                   /\ ev_pc' = "preroll"
              ELSE \* queue.Full
                   /\ UNCHANGED <<output_queue, queued>>
                   /\ ev_pc' = "full"
    /\ UNCHANGED <<current_audio_chunk, chunk_position, interrupt_event, ready_to_play,
                   demo_is_playing_tts, block_mic, cb_pc, samples_filled, outdata, ended_at, notDemo>>
    /\ preroll_due' = (preroll_due /\ Len(output_queue') < PREROLL_CHUNKS)

\* except queue.Full: _ = output_queue.get_nowait(); queue.Empty is passed over
on_audio_drop_oldest ==
    /\ ev_pc = "full"
    /\ IF output_queue # <<>>
       THEN /\ output_queue' = Tail(output_queue)
            /\ ev_pc' = "reput"
       ELSE /\ output_queue' = output_queue
            /\ ev_pc' = "preroll"
    /\ UNCHANGED <<current_audio_chunk, chunk_position, interrupt_event, ready_to_play,
                   demo_is_playing_tts, block_mic, np_audio, cb_pc, samples_filled, outdata,
                   arrived, queued,
                   preroll_due, ended_at, notDemo>>

\* output_queue.put_nowait(np_audio) after the drop; a second queue.Full would
\* leave _on_event through its outer except
on_audio_reput ==
    /\ ev_pc = "reput"
    /\ IF Len(output_queue) < MAX_QUEUE
       THEN /\ output_queue' = Append(output_queue, np_audio)
            /\ queued' = queued \cup {np_audio.id}
            /\ ev_pc' = "preroll"
       ELSE /\ UNCHANGED <<output_queue, queued>>
            /\ ev_pc' = "idle"
    /\ UNCHANGED <<current_audio_chunk, chunk_position, interrupt_event, ready_to_play,
                   demo_is_playing_tts, block_mic, np_audio, cb_pc, samples_filled, outdata,
                   arrived, ended_at, notDemo>>
    /\ preroll_due' = (preroll_due /\ Len(output_queue') < PREROLL_CHUNKS)

\* if not self.ready_to_play and self.output_queue.qsize() >= PREROLL_CHUNKS
on_audio_preroll ==
    /\ ev_pc = "preroll"
    /\ ev_pc' = IF ~ready_to_play THEN "preroll_size" ELSE "idle"
    /\ UNCHANGED <<output_queue, current_audio_chunk, chunk_position, interrupt_event,
                   ready_to_play, demo_is_playing_tts, block_mic, np_audio, cb_pc,
                   samples_filled, outdata, arrived, queued,
                   preroll_due, ended_at, notDemo>>

on_audio_preroll_size ==
    /\ ev_pc = "preroll_size"
    /\ ev_pc' = IF Len(output_queue) >= PREROLL_CHUNKS THEN "preroll_set" ELSE "idle"
    /\ UNCHANGED <<output_queue, current_audio_chunk, chunk_position, interrupt_event,
                   ready_to_play, demo_is_playing_tts, block_mic, np_audio, cb_pc,
                   samples_filled, outdata, arrived, queued,
                   preroll_due, ended_at, notDemo>>

\* self.ready_to_play = True
on_audio_preroll_set ==
    /\ ev_pc = "preroll_set"
    /\ ready_to_play' = TRUE
    /\ ev_pc' = "idle"
    /\ UNCHANGED <<output_queue, current_audio_chunk, chunk_position, interrupt_event,
                   demo_is_playing_tts, block_mic, np_audio, cb_pc, samples_filled, outdata,
                   arrived, queued,
                   preroll_due, ended_at, notDemo>>

\* etype == "audio_end" / "audio_interrupted": self.is_playing_tts = False
on_audio_end(interrupted) ==
    /\ ev_pc = "idle"
    /\ demo_is_playing_tts' = FALSE
    /\ ev_pc' = IF interrupted THEN "intr_unblock" ELSE "end_unblock"
    /\ UNCHANGED <<output_queue, current_audio_chunk, chunk_position, interrupt_event,
                   ready_to_play, block_mic, np_audio, cb_pc, samples_filled, outdata,
                   arrived, queued,
                   preroll_due, notDemo>>
    /\ ended_at' = IF interrupted THEN NotEnded ELSE arrived

\* self.block_mic = False
on_audio_end_unblock ==
    /\ ev_pc \in {"end_unblock", "intr_unblock"}
    /\ block_mic' = FALSE
    /\ ev_pc' = IF ev_pc = "intr_unblock" THEN "intr_set" ELSE "idle"
    /\ UNCHANGED <<output_queue, current_audio_chunk, chunk_position, interrupt_event,
                   ready_to_play, demo_is_playing_tts, np_audio, cb_pc, samples_filled,
                   outdata, arrived, queued,
                   preroll_due, ended_at, notDemo>>

\* self.interrupt_event.set()
on_audio_interrupted_set ==
    /\ ev_pc = "intr_set"
    /\ interrupt_event' = TRUE
    /\ ev_pc' = "idle"
    /\ UNCHANGED <<output_queue, current_audio_chunk, chunk_position, ready_to_play,
                   demo_is_playing_tts, block_mic, np_audio, cb_pc, samples_filled, outdata,
                   arrived, queued,
                   preroll_due, ended_at, notDemo>>

\* ---- _output_callback (audio driver thread) ----------------------------

\* entry: if self.interrupt_event.is_set()
output_callback ==
    /\ cb_pc = "idle"
    /\ cb_pc' = IF interrupt_event THEN "flush_clear" ELSE "preroll"
    /\ samples_filled' = 0
    /\ outdata' = <<>>
    /\ UNCHANGED <<output_queue, current_audio_chunk, chunk_position, interrupt_event,
                   ready_to_play, demo_is_playing_tts, block_mic, ev_pc, np_audio, arrived,
                   queued,
                   preroll_due, ended_at, notDemo>>

\* with self.output_queue.mutex: self.output_queue.queue.clear()
output_flush_clear ==
    /\ cb_pc = "flush_clear"
    /\ output_queue' = <<>>
    /\ cb_pc' = "flush_reset"
    /\ UNCHANGED <<current_audio_chunk, chunk_position, interrupt_event, ready_to_play,
                   demo_is_playing_tts, block_mic, ev_pc, np_audio, samples_filled, outdata,
                   arrived, queued,
                   preroll_due, ended_at, notDemo>>

\* current_audio_chunk = None; chunk_position = 0; interrupt_event.clear()
output_flush_reset ==
    /\ cb_pc = "flush_reset"
    /\ current_audio_chunk' = NoChunk
    /\ chunk_position' = 0
    /\ interrupt_event' = FALSE
    /\ cb_pc' = "flush_ready"
    /\ UNCHANGED <<output_queue, ready_to_play, demo_is_playing_tts, block_mic, ev_pc,
                   np_audio, samples_filled, outdata, arrived, queued,
                   preroll_due, ended_at, notDemo>>

\* ready_to_play = False; outdata.fill(0); return
output_flush_ready ==
    /\ cb_pc = "flush_ready"
    /\ ready_to_play' = FALSE
    /\ cb_pc' = "idle"
    /\ UNCHANGED <<output_queue, current_audio_chunk, chunk_position, interrupt_event,
                   demo_is_playing_tts, block_mic, ev_pc, np_audio, samples_filled, outdata,
                   arrived, queued, ended_at, notDemo>>
    /\ preroll_due' = (Len(output_queue) < PREROLL_CHUNKS)

\* if not self.ready_to_play
output_preroll ==
    /\ cb_pc = "preroll"
    /\ cb_pc' = IF ~ready_to_play THEN "preroll_size" ELSE "play"
    /\ UNCHANGED <<output_queue, current_audio_chunk, chunk_position, interrupt_event,
                   ready_to_play, demo_is_playing_tts, block_mic, ev_pc, np_audio,
                   samples_filled, outdata, arrived, queued,
                   preroll_due, ended_at, notDemo>>

\* if self.output_queue.qsize() >= PREROLL_CHUNKS ... else: silence, return
output_preroll_size ==
    /\ cb_pc = "preroll_size"
    /\ cb_pc' = IF Len(output_queue) >= PREROLL_CHUNKS THEN "preroll_set" ELSE "idle"
    /\ UNCHANGED <<output_queue, current_audio_chunk, chunk_position, interrupt_event,
                   ready_to_play, demo_is_playing_tts, block_mic, ev_pc, np_audio,
                   samples_filled, outdata, arrived, queued,
                   preroll_due, ended_at, notDemo>>

\* self.ready_to_play = True
output_preroll_set ==
    /\ cb_pc = "preroll_set"
    /\ ready_to_play' = TRUE
    /\ cb_pc' = "play"
    /\ UNCHANGED <<output_queue, current_audio_chunk, chunk_position, interrupt_event,
                   demo_is_playing_tts, block_mic, ev_pc, np_audio, samples_filled, outdata,
                   arrived, queued,
                   preroll_due, ended_at, notDemo>>

\* one iteration of "while samples_filled < frames" (frames = blocksize)
output_play ==
    /\ cb_pc = "play"
    /\ IF samples_filled >= blocksize
       THEN /\ cb_pc' = "idle"
            /\ UNCHANGED <<output_queue, current_audio_chunk, chunk_position, samples_filled,
                           outdata>>
       ELSE IF current_audio_chunk = NoChunk /\ output_queue = <<>>
       THEN \* queue.Empty: underrun, the rest stays silent
            /\ cb_pc' = "idle"
            /\ UNCHANGED <<output_queue, current_audio_chunk, chunk_position, samples_filled,
                           outdata>>
       ELSE LET fetch == current_audio_chunk = NoChunk
                chunk == IF fetch THEN Head(output_queue) ELSE current_audio_chunk
                pos == IF fetch THEN 0 ELSE chunk_position
                n == Min(blocksize - samples_filled, chunk.len - pos)
            IN  /\ output_queue' = IF fetch THEN Tail(output_queue) ELSE output_queue
                /\ samples_filled' = samples_filled + n
                /\ outdata' = IF n > 0 THEN Append(outdata, chunk.id) ELSE outdata
                /\ IF pos + n >= chunk.len
                   THEN current_audio_chunk' = NoChunk /\ chunk_position' = 0
                   ELSE current_audio_chunk' = chunk /\ chunk_position' = pos + n
                /\ cb_pc' = "play"
    /\ UNCHANGED <<interrupt_event, ready_to_play, demo_is_playing_tts, block_mic, ev_pc,
                   np_audio, arrived, queued,
                   preroll_due, ended_at, notDemo>>

DemoNext ==
    \/ on_agent_start
    \/ on_agent_start_block
    \/ \E len \in DemoChunkLens : on_audio(len)
    \/ on_audio_drop_oldest
    \/ on_audio_reput
    \/ on_audio_preroll
    \/ on_audio_preroll_size
    \/ on_audio_preroll_set
    \/ \E interrupted \in BOOLEAN : on_audio_end(interrupted)
    \/ on_audio_end_unblock
    \/ on_audio_interrupted_set
    \/ output_callback
    \/ output_flush_clear
    \/ output_flush_reset
    \/ output_flush_ready
    \/ output_preroll
    \/ output_preroll_size
    \/ output_preroll_set
    \/ output_play

\* ---- _input_callback (microphone thread) --------------------------------
\* run() sets self.loop and self.session before it starts the input stream
\* and never resets them, so "if not self.session or not self.loop" does not
\* return while the callback can run; the conversion to int16 bytes does not
\* depend on the flags.

Flag(b) == IF b THEN "True" ELSE "False"

Unread == [block |-> "unread", playing |-> "unread"]

NoUIDemo_input_init ==
    /\ mic_pc = "idle"
    /\ mic_entry = [block |-> "False", playing |-> "False"]
    /\ mic_saw = Unread
    /\ mic_sent = <<>>
    /\ mic_frames = 0

\* a flag that suppresses nothing
half_duplex_off(flag) == FALSE

\* "if self.block_mic or self.is_playing_tts: return", one operand at a time
half_duplex(flag) == flag

\* the audio driver calls _input_callback with one captured block
input_callback ==
    /\ mic_pc = "idle"
    /\ mic_frames < MaxMicFrames
    /\ mic_frames' = mic_frames + 1
    /\ mic_entry' = [block |-> Flag(block_mic), playing |-> Flag(demo_is_playing_tts)]
    /\ mic_saw' = Unread
    /\ mic_pc' = "block_mic"
    /\ UNCHANGED <<mic_sent, notMic>>

\* self.block_mic, the left operand of the "or"
input_read_block_mic ==
    /\ mic_pc = "block_mic"
    /\ mic_saw' = [mic_saw EXCEPT !.block = Flag(block_mic)]
    /\ mic_pc' = IF half_duplex(block_mic) THEN "idle" ELSE "is_playing_tts"
    /\ UNCHANGED <<mic_entry, mic_sent, mic_frames, notMic>>

\* self.is_playing_tts, read only when block_mic was false
input_read_is_playing_tts ==
    /\ mic_pc = "is_playing_tts"
    /\ mic_saw' = [mic_saw EXCEPT !.playing = Flag(demo_is_playing_tts)]
    /\ mic_pc' = IF half_duplex(demo_is_playing_tts) THEN "idle" ELSE "send"
    /\ UNCHANGED <<mic_entry, mic_sent, mic_frames, notMic>>

\* asyncio.run_coroutine_threadsafe(self.session.send_audio(audio_bytes), self.loop)
input_send ==
    /\ mic_pc = "send"
    /\ mic_sent' = Append(mic_sent, [entry |-> mic_entry, saw |-> mic_saw])
    /\ mic_pc' = "idle"
    /\ UNCHANGED <<mic_entry, mic_saw, mic_frames, notMic>>

\* the microphone thread next to the event handler's writes of the two flags
MicNext ==
    \/ on_agent_start
    \/ on_agent_start_block
    \/ \E interrupted \in BOOLEAN : on_audio_end(interrupted)
    \/ on_audio_end_unblock
    \/ on_audio_interrupted_set
    \/ input_callback
    \/ input_read_block_mic
    \/ input_read_is_playing_tts
    \/ input_send

\* ======================================================================
\* TwilioHandler, inbound audio  (src/twilio/twilio_handler.py)
\* ======================================================================

\* int(self.SAMPLE_RATE * self.CHUNK_LENGTH_S)
BUFFER_SIZE_BYTES == (SAMPLE_RATE * CHUNK_LENGTH_MS) \div 1000

\* mu-law byte counts of an inbound 'media' payload: one 20 ms frame, 50 ms
PayloadLens == {160, 400}

RECURSIVE ByteLen(_)
\* len(self._audio_buffer)
ByteLen(buf) == IF buf = <<>> THEN 0 ELSE Head(buf).n + ByteLen(Tail(buf))

TwilioHandler_init ==
    /\ audio_buffer = <<>>
    /\ since_send = 0
    /\ ml_pc = "recv"
    /\ ml_data = <<>>
    /\ bf_pc = "sleep"
    /\ bf_data = <<>>
    /\ send_audio_calls = <<>>
    /\ nrecv = 0
    /\ malformed_at = <<>>

\* the call session.send_audio(buffer_data), not yet returned
Call(data) == [data |-> data, status |-> "pending"]

\* the last pending call with this data changes its status
Settle(calls, data, status) ==
    LET idx == CHOOSE i \in 1..Len(calls) :
                   /\ calls[i] = Call(data)
                   /\ \A j \in (i + 1)..Len(calls) : calls[j] # Call(data)
    IN  [calls EXCEPT ![idx].status = status]

\* _handle_media_event: decode, extend the buffer, and at BUFFER_SIZE_BYTES or
\* more enter _flush_audio_buffer up to its await
handle_media_event(n) ==
    /\ ml_pc = "recv"
    /\ nrecv < MaxPayloads
    /\ nrecv' = nrecv + 1
    /\ LET buf == Append(audio_buffer, [id |-> nrecv + 1, n |-> n])
       IN  /\ audio_buffer' = buf
           /\ IF ByteLen(buf) >= BUFFER_SIZE_BYTES
              THEN /\ ml_data' = buf
                   /\ send_audio_calls' = Append(send_audio_calls, Call(buf))
                   /\ ml_pc' = "send"
              ELSE UNCHANGED <<ml_data, send_audio_calls, ml_pc>>
    /\ UNCHANGED <<since_send, bf_pc, bf_data, malformed_at, notInb>>

\* mutant of media_event_except: the error handler resets the buffer
media_event_except_clears(buf) == <<>>

\* "except Exception as e: print(...)" of _handle_media_event after
\* base64.b64decode raised: the buffer as the handler leaves it
media_event_except(buf) == buf

\* a 'media' message whose payload does not decode: b64decode raises before
\* the buffer is touched, the exception is printed, the loop receives again
handle_media_event_malformed ==
    /\ ml_pc = "recv"
    /\ Len(malformed_at) < MaxMalformed
    /\ malformed_at' = Append(malformed_at,
                              [at |-> nrecv, buffered |-> Len(audio_buffer),
                               marks |-> Cardinality(DOMAIN mark_data),
                               sid |-> handler_stream_sid])
    /\ audio_buffer' = media_event_except(audio_buffer)
    /\ UNCHANGED <<since_send, ml_pc, ml_data, bf_pc, bf_data, send_audio_calls, nrecv,
                   notInb>>

\* _flush_audio_buffer after "await self.session.send_audio(buffer_data)":
\* the buffer is cleared and the send time taken, or the exception is printed
flush_audio_buffer_return(buf, ok) ==
    IF ok THEN <<>> ELSE buf

\* ... in the message-loop task
media_flush_done(ok) ==
    /\ ml_pc = "send"
    /\ audio_buffer' = flush_audio_buffer_return(audio_buffer, ok)
    /\ since_send' = IF ok THEN 0 ELSE since_send
    /\ send_audio_calls' = Settle(send_audio_calls, ml_data, IF ok THEN "ok" ELSE "failed")
    /\ ml_data' = <<>>
    /\ ml_pc' = "recv"
    /\ UNCHANGED <<bf_pc, bf_data, nrecv, malformed_at, notInb>>

\* CHUNK_LENGTH_S passes: the clock moves on, asyncio.sleep returns
clock_tick ==
    /\ since_send' = Min(since_send + 1, 3)
    /\ bf_pc' = IF bf_pc = "sleep" THEN "ready" ELSE bf_pc
    /\ UNCHANGED <<audio_buffer, ml_pc, ml_data, bf_data, send_audio_calls, nrecv, malformed_at, notInb>>

\* current_time - self._last_buffer_send_time > self.CHUNK_LENGTH_S * 2
\* (after two whole ticks the real difference may be on either side)
Stale(late) == since_send > 2 \/ (since_send = 2 /\ late)

\* a flush loop that goes back to sleep whatever the buffer holds
buffer_flush_loop_sleeps(late) ==
    /\ bf_pc = "ready"
    /\ bf_pc' = "sleep"
    /\ UNCHANGED <<bf_data, send_audio_calls>>
    /\ UNCHANGED <<audio_buffer, since_send, ml_pc, ml_data, nrecv, malformed_at, notInb>>

\* _buffer_flush_loop after its sleep: flush a stale non-empty buffer
buffer_flush_loop(late) ==
    /\ bf_pc = "ready"
    /\ IF audio_buffer # <<>> /\ Stale(late)
       THEN /\ bf_data' = audio_buffer
            /\ send_audio_calls' = Append(send_audio_calls, Call(audio_buffer))
            /\ bf_pc' = "send"
       ELSE /\ UNCHANGED <<bf_data, send_audio_calls>>
            /\ bf_pc' = "sleep"
    /\ UNCHANGED <<audio_buffer, since_send, ml_pc, ml_data, nrecv, malformed_at, notInb>>

\* ... in the flush-loop task
loop_flush_done(ok) ==
    /\ bf_pc = "send"
    /\ audio_buffer' = flush_audio_buffer_return(audio_buffer, ok)
    /\ since_send' = IF ok THEN 0 ELSE since_send
    /\ send_audio_calls' = Settle(send_audio_calls, bf_data, IF ok THEN "ok" ELSE "failed")
    /\ bf_data' = <<>>
    /\ bf_pc' = "sleep"
    /\ UNCHANGED <<ml_pc, ml_data, nrecv, malformed_at, notInb>>

\* session.send_audio may still raise
MayFail ==
    Cardinality({i \in 1..Len(send_audio_calls) : send_audio_calls[i].status = "failed"})
        < MaxSendFailures

InboundNext ==
    \/ \E n \in PayloadLens : handle_media_event(n)
    \/ handle_media_event_malformed
    \/ \E ok \in BOOLEAN : (ok \/ MayFail) /\ media_flush_done(ok)
    \/ clock_tick
    \/ \E late \in BOOLEAN : buffer_flush_loop(late)
    \/ \E ok \in BOOLEAN : (ok \/ MayFail) /\ loop_flush_done(ok)

\* the same with a session.send_audio that always succeeds
InboundNextOk ==
    \/ \E n \in PayloadLens : handle_media_event(n)
    \/ handle_media_event_malformed
    \/ media_flush_done(TRUE)
    \/ clock_tick
    \/ \E late \in BOOLEAN : buffer_flush_loop(late)
    \/ loop_flush_done(TRUE)

\* ---- _flush_audio_buffer, one call at a time ----------------------------
\* The inbound actions above take a call as two steps (up to the await of
\* send_audio, and its return).  Here one call is followed through all of its
\* suspension points, "await self.session.close()" of the error handler
\* included, entered in any state of the buffer and of self.session.

NoEntry == [buf |-> <<>>, t |-> 0, sends |-> 0]

TwilioHandler_flush_init ==
    /\ fa_pc = "idle"
    /\ fa_session = "None"
    /\ fa_entry = NoEntry
    /\ fa_raised = FALSE
    /\ fa_calls = 0
    /\ fa_failed = 0

\* start(): self.session = await runner.run(...)
flush_session_created ==
    /\ fa_session = "None"
    /\ fa_pc = "idle"
    /\ fa_session' = "open"
    /\ UNCHANGED <<fa_pc, fa_entry, fa_raised, fa_calls, fa_failed, inbVars, notFlush>>

\* a 'media' payload is appended while the buffer stays below BUFFER_SIZE_BYTES
flush_media_buffered(n) ==
    /\ nrecv < MaxPayloads
    /\ ByteLen(audio_buffer) + n < BUFFER_SIZE_BYTES
    /\ nrecv' = nrecv + 1
    /\ audio_buffer' = Append(audio_buffer, [id |-> nrecv + 1, n |-> n])
    /\ UNCHANGED <<since_send, ml_pc, ml_data, bf_pc, bf_data, send_audio_calls,
                   malformed_at, flushVars, notFlush>>

\* time passes
flush_clock_tick ==
    /\ since_send' = Min(since_send + 1, 3)
    /\ since_send' # since_send
    /\ UNCHANGED <<audio_buffer, ml_pc, ml_data, bf_pc, bf_data, send_audio_calls, nrecv,
                   malformed_at, flushVars, notFlush>>

\* "if not self._audio_buffer or not self.session: return"
flush_returns_at_once(buf, sess) == buf = <<>> \/ sess = "None"

\* entry of _flush_audio_buffer up to "await self.session.send_audio(buffer_data)"
flush_audio_buffer ==
    /\ fa_pc = "idle"
    /\ fa_calls < MaxFlushCalls
    /\ fa_calls' = fa_calls + 1
    /\ fa_entry' = [buf |-> audio_buffer, t |-> since_send, sends |-> Len(send_audio_calls)]
    /\ IF flush_returns_at_once(audio_buffer, fa_session)
       THEN UNCHANGED <<fa_pc, send_audio_calls>>
       ELSE /\ send_audio_calls' = Append(send_audio_calls, Call(audio_buffer))
            /\ fa_pc' = "send"
    /\ UNCHANGED <<audio_buffer, since_send, ml_pc, ml_data, bf_pc, bf_data, nrecv,
                   malformed_at, fa_session, fa_raised, fa_failed, notFlush>>

\* send_audio returned: clear() and the new send time; or it raised: the
\* except clause prints and awaits self.session.close()
flush_send_audio_done(ok) ==
    /\ fa_pc = "send"
    /\ audio_buffer' = flush_audio_buffer_return(audio_buffer, ok)
    /\ since_send' = IF ok THEN 0 ELSE since_send
    /\ send_audio_calls' = Settle(send_audio_calls, fa_entry.buf, IF ok THEN "ok" ELSE "failed")
    /\ fa_pc' = IF ok THEN "idle" ELSE "close"
    /\ fa_failed' = IF ok THEN fa_failed ELSE fa_failed + 1
    /\ UNCHANGED <<ml_pc, ml_data, bf_pc, bf_data, nrecv, malformed_at, fa_session,
                   fa_entry, fa_raised, fa_calls, notFlush>>

\* an error handler that lets the exception of close() through
close_except_reraises(ok) == ~ok

\* "except Exception as e: print(...)" around "await self.session.close()":
\* whether an exception leaves the function
close_except(ok) == FALSE

\* self.session.close() returned or raised; _flush_audio_buffer returns
flush_close_done(ok) ==
    /\ fa_pc = "close"
    /\ fa_session' = IF ok THEN "closed" ELSE fa_session
    /\ fa_raised' = (fa_raised \/ close_except(ok))
    /\ fa_pc' = "idle"
    /\ UNCHANGED <<inbVars, fa_entry, fa_calls, fa_failed, notFlush>>

FlushNext ==
    \/ flush_session_created
    \/ \E n \in PayloadLens : flush_media_buffered(n)
    \/ flush_clock_tick
    \/ flush_audio_buffer
    \/ \E ok \in BOOLEAN : flush_send_audio_done(ok)
    \/ \E ok \in BOOLEAN : flush_close_done(ok)

\* ======================================================================
\* TwilioHandler, outbound audio and marks  (src/twilio/twilio_handler.py,
\* started by media_stream_endpoint in src/twilio/server.py)
\* ======================================================================

\* item ids of the assistant's utterances
Items == {"item_a", "item_b"}

\* bytes of mu-law audio the agent session produces for an item
AudioLen(item) == IF item = "item_a" THEN 1600 ELSE 9000

\* len(event.audio.data) of one 'audio' event of the item
EventLen(item) == IF item = "item_a" THEN 800 ELSE 4500

\* event.audio.content_index
ContentIndexes == {0, 1}

\* event.history: the assistant items it lists, oldest first
Histories == {<<>>, <<"item_a">>, <<"item_b">>, <<"item_a", "item_b">>}

\* str(self._mark_counter): the decimal digits
str(n) == IF n < 10 THEN <<n>> ELSE <<n \div 10, n % 10>>

\* names a 'mark' message of the provider may carry
MarkNames == {str(n) : n \in 1..(MaxEvents + 1)} \cup {<<0, 1>>, <<>>}

NoEvent == [item |-> "", idx |-> 0, n |-> 0, off |-> 0]

\* json.dumps({"event": ..., "streamSid": self._stream_sid, ...})
Msg(event, n, name) ==
    [event |-> event, streamSid |-> handler_stream_sid, n |-> n, name |-> name]

TwilioHandler_out_init ==
    /\ ep_pc = "wait"
    /\ handler_stream_sid = None
    /\ mark_counter = 0
    /\ mark_data = <<>>
    /\ processed_audio_items = {}
    /\ rt_pc = "wait"
    /\ rt_ev = NoEvent
    /\ twilio_out = <<>>
    /\ tw_open = TRUE
    /\ play_calls = <<>>
    /\ bound_sid = None
    /\ emitted = [i \in Items |-> 0]
    /\ marked = <<>>
    /\ nevents = 0
    /\ nacks = 0
    /\ ack_kinds = {}

\* media_stream_endpoint: the provider's 'start' is read here, the handler is
\* created and started, and the endpoint returns
media_stream_endpoint(sid) ==
    /\ ep_pc = "wait"
    /\ ep_pc' = "returned"
    /\ bound_sid' = sid
    /\ UNCHANGED <<handler_stream_sid, mark_counter, mark_data, processed_audio_items, rt_pc,
                   rt_ev, twilio_out, tw_open, play_calls, emitted, marked, nevents, nacks,
                   ml_pc, ack_kinds, notOut>>

\* the connection to the provider drops; every later send_text raises
transport_drop ==
    /\ ep_pc = "returned"
    /\ tw_open
    /\ tw_open' = FALSE
    /\ UNCHANGED <<ep_pc, handler_stream_sid, mark_counter, mark_data, processed_audio_items,
                   rt_pc, rt_ev, twilio_out, play_calls, bound_sid, emitted, marked, nevents,
                   nacks, ml_pc, ack_kinds, notOut>>

\* ---- _realtime_session_loop / _handle_realtime_event -------------------

\* event.type == "audio": the 'media' message is sent (or send_text raises and
\* the handler's except prints it)
handle_audio(item, idx) ==
    /\ ep_pc = "returned" /\ rt_pc = "wait"
    /\ nevents < MaxEvents
    /\ emitted[item] + EventLen(item) <= AudioLen(item)
    /\ nevents' = nevents + 1
    /\ emitted' = [emitted EXCEPT ![item] = @ + EventLen(item)]
    /\ IF tw_open
       THEN /\ twilio_out' = Append(twilio_out, Msg("media", EventLen(item), <<>>))
            /\ rt_ev' = [item |-> item, idx |-> idx, n |-> EventLen(item), off |-> EventLen(item)]
            /\ rt_pc' = "audio_media"
       ELSE UNCHANGED <<twilio_out, rt_ev, rt_pc>>
    /\ UNCHANGED <<ep_pc, handler_stream_sid, mark_counter, mark_data, processed_audio_items,
                   tw_open, play_calls, bound_sid, marked, nacks, ml_pc, ack_kinds, notOut>>

\* mark allocation whose counter does not advance
allocate_mark_reuses(item, idx, n, sent, next_pc) ==
    LET mark_id == str(Min(mark_counter + 1, 1))
    IN  /\ mark_counter' = mark_counter + 1
        /\ mark_data' = [k \in DOMAIN mark_data \cup {mark_id} |->
                            IF k = mark_id THEN [item |-> item, idx |-> idx, n |-> n]
                            ELSE mark_data[k]]
        /\ marked' = [k \in DOMAIN marked \cup {mark_id} |->
                            IF k = mark_id THEN [item |-> item, n |-> sent] ELSE marked[k]]
        /\ IF tw_open
           THEN /\ twilio_out' = Append(twilio_out, Msg("mark", 0, mark_id))
                /\ rt_pc' = next_pc
           ELSE /\ UNCHANGED twilio_out
                /\ rt_pc' = "wait"

\* self._mark_counter += 1; mark_id = str(...); self._mark_data[mark_id] = ...
\* and the 'mark' message (both paths allocate this way)
allocate_mark(item, idx, n, sent, next_pc) ==
    LET mark_id == str(mark_counter + 1)
    IN  /\ mark_counter' = mark_counter + 1
        /\ mark_data' = [k \in DOMAIN mark_data \cup {mark_id} |->
                            IF k = mark_id THEN [item |-> item, idx |-> idx, n |-> n]
                            ELSE mark_data[k]]
        /\ marked' = [k \in DOMAIN marked \cup {mark_id} |->
                            IF k = mark_id THEN [item |-> item, n |-> sent] ELSE marked[k]]
        /\ IF tw_open
           THEN /\ twilio_out' = Append(twilio_out, Msg("mark", 0, mark_id))
                /\ rt_pc' = next_pc
           ELSE /\ UNCHANGED twilio_out
                /\ rt_pc' = "wait"

\* after the 'media' send of an 'audio' event: the mark
handle_audio_mark ==
    /\ rt_pc = "audio_media"
    /\ allocate_mark(rt_ev.item, rt_ev.idx, rt_ev.n, rt_ev.off, "audio_mark")
    /\ UNCHANGED <<ep_pc, handler_stream_sid, processed_audio_items, rt_ev, tw_open,
                   play_calls, bound_sid, emitted, nevents, nacks, ml_pc, ack_kinds, notOut>>

\* the 'mark' send returns; back to "async for event in self.session"
handle_audio_done ==
    /\ rt_pc = "audio_mark"
    /\ rt_pc' = "wait"
    /\ rt_ev' = NoEvent
    /\ UNCHANGED <<ep_pc, handler_stream_sid, mark_counter, mark_data, processed_audio_items,
                   twilio_out, tw_open, play_calls, bound_sid, emitted, marked, nevents,
                   nacks, ml_pc, ack_kinds, notOut>>

\* event.type == "audio_interrupted": a 'clear' message, errors printed
handle_audio_interrupted ==
    /\ ep_pc = "returned" /\ rt_pc = "wait"
    /\ nevents < MaxEvents
    /\ nevents' = nevents + 1
    /\ twilio_out' = IF tw_open THEN Append(twilio_out, Msg("clear", 0, <<>>)) ELSE twilio_out
    /\ UNCHANGED <<ep_pc, handler_stream_sid, mark_counter, mark_data, processed_audio_items,
                   rt_pc, rt_ev, tw_open, play_calls, bound_sid, emitted, marked, nacks,
                   ml_pc, ack_kinds, notOut>>

\* _handle_history_audio: "for item in reversed(event.history)", skipping the
\* items in _processed_audio_items; "" when none is left
RECURSIVE HistoryTarget(_, _)
HistoryTarget(history, processed) ==
    IF history = <<>> THEN ""
    ELSE LET last == history[Len(history)]
         IN  IF last \in processed
             THEN HistoryTarget(SubSeq(history, 1, Len(history) - 1), processed)
             ELSE last

\* event.type == "history_updated": _handle_history_audio up to its first
\* send_text. broken: the item's content cannot be iterated, which the outer
\* except answers with _fallback_text_to_speech.
handle_history_audio(history, broken) ==
    /\ ep_pc = "returned" /\ rt_pc = "wait"
    /\ nevents < MaxEvents
    /\ nevents' = nevents + 1
    /\ LET item == HistoryTarget(history, processed_audio_items)
       IN  IF item = "" \/ ~tw_open
           THEN UNCHANGED <<twilio_out, rt_ev, rt_pc>>
           ELSE IF broken
           THEN /\ twilio_out' = Append(twilio_out, Msg("media", beep_samples, <<>>))
                /\ rt_pc' = "fallback_media"
                /\ UNCHANGED rt_ev
           ELSE LET first == Min(AudioLen(item), chunk_size)
                IN  /\ twilio_out' = Append(twilio_out, Msg("media", first, <<>>))
                    /\ rt_ev' = [item |-> item, idx |-> 0, n |-> AudioLen(item), off |-> first]
                    /\ rt_pc' = "hist_media"
    /\ UNCHANGED <<ep_pc, handler_stream_sid, mark_counter, mark_data, processed_audio_items,
                   tw_open, play_calls, bound_sid, emitted, marked, nacks, ml_pc, ack_kinds, notOut>>

\* the next chunk of "for i in range(0, len(audio_bytes), chunk_size)"
handle_history_chunk ==
    /\ rt_pc = "hist_media"
    /\ rt_ev.off < rt_ev.n
    /\ IF tw_open
       THEN LET next == Min(rt_ev.n - rt_ev.off, chunk_size)
            IN  /\ twilio_out' = Append(twilio_out, Msg("media", next, <<>>))
                /\ rt_ev' = [rt_ev EXCEPT !.off = @ + next]
                /\ UNCHANGED rt_pc
       ELSE /\ rt_pc' = "wait"
            /\ rt_ev' = NoEvent
            /\ UNCHANGED twilio_out
    /\ UNCHANGED <<ep_pc, handler_stream_sid, mark_counter, mark_data, processed_audio_items,
                   tw_open, play_calls, bound_sid, emitted, marked, nevents, nacks, ml_pc, ack_kinds,
                   notOut>>

\* after the last 'media' send of the history audio: one mark for all of it
handle_history_mark ==
    /\ rt_pc = "hist_media"
    /\ rt_ev.off = rt_ev.n
    /\ allocate_mark(rt_ev.item, 0, rt_ev.n, rt_ev.off, "hist_mark")
    /\ UNCHANGED <<ep_pc, handler_stream_sid, processed_audio_items, rt_ev, tw_open,
                   play_calls, bound_sid, emitted, nevents, nacks, ml_pc, ack_kinds, notOut>>

\* self._processed_audio_items.add(item_id); return
handle_history_done ==
    /\ rt_pc = "hist_mark"
    /\ processed_audio_items' = processed_audio_items \cup {rt_ev.item}
    /\ rt_pc' = "wait"
    /\ rt_ev' = NoEvent
    /\ UNCHANGED <<ep_pc, handler_stream_sid, mark_counter, mark_data, twilio_out, tw_open,
                   play_calls, bound_sid, emitted, marked, nevents, nacks, ml_pc, ack_kinds, notOut>>

\* _fallback_text_to_speech: the beep's send returns; no mark is made
fallback_done ==
    /\ rt_pc = "fallback_media"
    /\ rt_pc' = "wait"
    /\ UNCHANGED <<ep_pc, handler_stream_sid, mark_counter, mark_data, processed_audio_items,
                   rt_ev, twilio_out, tw_open, play_calls, bound_sid, emitted, marked,
                   nevents, nacks, ml_pc, ack_kinds, notOut>>

\* ---- _twilio_message_loop / _handle_twilio_message ---------------------

\* event == "start": bind self._stream_sid if it is not set, then sleep
handle_start(sid) ==
    /\ ep_pc = "returned" /\ ml_pc = "recv"
    /\ tw_open
    /\ nacks < MaxAcks
    /\ nacks' = nacks + 1
    /\ IF handler_stream_sid = None
       THEN /\ handler_stream_sid' = sid
            /\ ml_pc' = "start_sleep"
       ELSE UNCHANGED <<handler_stream_sid, ml_pc>>
    /\ UNCHANGED <<ep_pc, mark_counter, mark_data, processed_audio_items, rt_pc, rt_ev,
                   twilio_out, tw_open, play_calls, bound_sid, emitted, marked, nevents, ack_kinds,
                   notOut>>

\* asyncio.sleep(0.1) returns
handle_start_done ==
    /\ ml_pc = "start_sleep"
    /\ ml_pc' = "recv"
    /\ UNCHANGED <<outVars, notOut>>

\* _handle_mark_event with a mark that is kept on its acknowledgment
handle_mark_event_keeps(name) ==
    /\ ep_pc = "returned" /\ ml_pc = "recv"
    /\ tw_open
    /\ nacks < MaxAcks
    /\ nacks' = nacks + 1
    /\ ack_kinds' = ack_kinds \cup {IF name \in DOMAIN mark_data THEN "pending"
                                    ELSE IF name \in DOMAIN marked THEN "consumed"
                                    ELSE "unknown"}
    /\ IF name \in DOMAIN mark_data
       THEN play_calls' = Append(play_calls, [name |-> name, item |-> mark_data[name].item,
                                              idx |-> mark_data[name].idx,
                                              n |-> mark_data[name].n])
       ELSE UNCHANGED play_calls
    /\ UNCHANGED <<ep_pc, handler_stream_sid, mark_counter, mark_data, processed_audio_items,
                   rt_pc, rt_ev, twilio_out, tw_open, bound_sid, emitted, marked, nevents,
                   ml_pc, notOut>>

\* _handle_mark_event: a known mark is reported to the playback tracker and
\* deleted; any other name is passed over
handle_mark_event(name) ==
    /\ ep_pc = "returned" /\ ml_pc = "recv"
    /\ tw_open
    /\ nacks < MaxAcks
    /\ nacks' = nacks + 1
    /\ ack_kinds' = ack_kinds \cup {IF name \in DOMAIN mark_data THEN "pending"
                                    ELSE IF name \in DOMAIN marked THEN "consumed"
                                    ELSE "unknown"}
    /\ IF name \in DOMAIN mark_data
       THEN /\ play_calls' = Append(play_calls, [name |-> name, item |-> mark_data[name].item,
                                                 idx |-> mark_data[name].idx,
                                                 n |-> mark_data[name].n])
            /\ mark_data' = [k \in DOMAIN mark_data \ {name} |-> mark_data[k]]
       ELSE UNCHANGED <<play_calls, mark_data>>
    /\ UNCHANGED <<ep_pc, handler_stream_sid, mark_counter, processed_audio_items, rt_pc,
                   rt_ev, twilio_out, tw_open, bound_sid, emitted, marked, nevents, ml_pc,
                   notOut>>

OutboundNext ==
    \/ \E sid \in StreamSids : media_stream_endpoint(sid)
    \/ transport_drop
    \/ \E item \in Items, idx \in ContentIndexes : handle_audio(item, idx)
    \/ handle_audio_mark
    \/ handle_audio_done
    \/ handle_audio_interrupted
    \/ \E history \in Histories, broken \in BOOLEAN : handle_history_audio(history, broken)
    \/ handle_history_chunk
    \/ handle_history_mark
    \/ handle_history_done
    \/ fallback_done
    \/ \E sid \in StreamSids : handle_start(sid)
    \/ handle_start_done
    \/ \E name \in MarkNames : handle_mark_event(name)

\* ======================================================================
\* TwilioHandler, life cycle  (src/twilio/twilio_handler.py 67-211)
\* ======================================================================

\* tasks_to_cancel, in the order _cleanup_tasks walks it
tasks_to_cancel ==
    <<"realtime_session_task", "message_loop_task", "buffer_flush_task", "keepalive_task">>

TaskNames == Range(tasks_to_cancel)

\* task.done()
done(t) == tasks[t] \in {"done", "cancelled", "killed"}

TwilioHandler_life_init ==
    /\ start_pc = "new"
    /\ session = None
    /\ tasks = [t \in TaskNames |-> IF t = "message_loop_task" THEN None ELSE "unset"]
    /\ twilio_websocket = "up"
    /\ wd_pc = "idle"
    /\ cleanup_i = 0
    /\ close_calls = 0
    /\ ncleanup = 0
    /\ process = "up"
    /\ other_session = "running"

\* start() up to "await self.session.enter()": the api_key test or
\* runner.run(...) raises, or the session object is there
start(ok) ==
    /\ process = "up" /\ start_pc = "new"
    /\ IF ok
       THEN /\ session' = "created"
            /\ start_pc' = "entering"
       ELSE /\ start_pc' = "failed"
            /\ UNCHANGED session
    /\ UNCHANGED <<tasks, twilio_websocket, wd_pc, cleanup_i, close_calls, ncleanup, process,
                   other_session, notLife>>

\* session.enter() returns and the four tasks are created, or it raises
start_entered(ok) ==
    /\ process = "up" /\ start_pc = "entering"
    /\ IF ok
       THEN /\ session' = "entered"
            /\ tasks' = [t \in TaskNames |-> "running"]
            /\ start_pc' = "started"
       ELSE /\ start_pc' = "failed"
            /\ UNCHANGED <<session, tasks>>
    /\ UNCHANGED <<twilio_websocket, wd_pc, cleanup_i, close_calls, ncleanup, process,
                   other_session, notLife>>

\* _twilio_message_loop / _handle_twilio_message: event == "stop" is printed
\* and the loop goes on to the next receive_text
handle_stop ==
    /\ process = "up" /\ tasks["message_loop_task"] = "running"
    /\ twilio_websocket = "up"
    /\ twilio_websocket' = "stopped"
    /\ UNCHANGED <<start_pc, session, tasks, wd_pc, cleanup_i, close_calls, ncleanup, process,
                   other_session, notLife>>

\* the provider's connection goes away
websocket_disconnect ==
    /\ process = "up" /\ start_pc = "started"
    /\ twilio_websocket \in {"up", "stopped"}
    /\ twilio_websocket' = "dropped"
    /\ UNCHANGED <<start_pc, session, tasks, wd_pc, cleanup_i, close_calls, ncleanup, process,
                   other_session, notLife>>

\* sys.exit(): SystemExit leaves the task and the event loop; the process and
\* every task in it end
sys_exit ==
    /\ process' = "exited"
    /\ tasks' = [t \in TaskNames |-> IF tasks[t] = "running" THEN "killed" ELSE tasks[t]]
    /\ other_session' = "terminated"

\* _twilio_message_loop: receive_text raises on the dropped connection;
\* "except Exception as msg_error" prints and calls sys.exit()
message_loop_error ==
    /\ process = "up" /\ tasks["message_loop_task"] = "running"
    /\ twilio_websocket = "dropped"
    /\ sys_exit
    /\ UNCHANGED <<start_pc, session, twilio_websocket, wd_pc, cleanup_i, close_calls,
                   ncleanup, notLife>>

\* _realtime_session_loop: "async for event in self.session" raises; the
\* except closes the session and the task ends
realtime_session_loop_error ==
    /\ process = "up" /\ tasks["realtime_session_task"] = "running"
    /\ close_calls' = close_calls + 1
    /\ session' = "closed"
    /\ tasks' = [tasks EXCEPT !["realtime_session_task"] = "done"]
    /\ UNCHANGED <<start_pc, twilio_websocket, wd_pc, cleanup_i, ncleanup, process,
                   other_session, notLife>>

\* _keepalive_loop: send_text raises on the dropped connection; break
keepalive_loop_error ==
    /\ process = "up" /\ tasks["keepalive_task"] = "running"
    /\ twilio_websocket = "dropped"
    /\ tasks' = [tasks EXCEPT !["keepalive_task"] = "done"]
    /\ UNCHANGED <<start_pc, session, twilio_websocket, wd_pc, cleanup_i, close_calls,
                   ncleanup, process, other_session, notLife>>

\* wait_until_done is called: the assert, then "await self._message_loop_task"
wait_until_done ==
    /\ process = "up" /\ wd_pc \in {"idle", "raised"}
    /\ ncleanup < MaxCleanups
    /\ ncleanup' = ncleanup + 1
    /\ wd_pc' = IF tasks["message_loop_task"] = None THEN "raised" ELSE "await_loop"
    /\ UNCHANGED <<start_pc, session, tasks, twilio_websocket, cleanup_i, close_calls, process,
                   other_session, notLife>>

\* the message loop task is over: the finally of wait_until_done
wait_until_done_finally ==
    /\ process = "up" /\ wd_pc = "await_loop"
    /\ done("message_loop_task")
    /\ wd_pc' = "cleanup"
    /\ cleanup_i' = 1
    /\ UNCHANGED <<start_pc, session, tasks, twilio_websocket, close_calls, ncleanup, process,
                   other_session, notLife>>

\* _cleanup_tasks is called: tasks_to_cancel is built from the four
\* attributes, three of which exist only once start() has created the tasks
cleanup_tasks ==
    /\ process = "up" /\ wd_pc \in {"idle", "raised"}
    /\ ncleanup < MaxCleanups
    /\ ncleanup' = ncleanup + 1
    /\ IF \E t \in TaskNames : tasks[t] = "unset"
       THEN /\ wd_pc' = "raised"
            /\ UNCHANGED cleanup_i
       ELSE /\ wd_pc' = "cleanup"
            /\ cleanup_i' = 1
    /\ UNCHANGED <<start_pc, session, tasks, twilio_websocket, close_calls, process,
                   other_session, notLife>>

\* one turn of "for task in tasks_to_cancel": cancel and await a task that
\* is not done
cleanup_cancel ==
    /\ process = "up" /\ wd_pc = "cleanup"
    /\ LET t == tasks_to_cancel[cleanup_i]
       IN  tasks' = IF tasks[t] # None /\ ~done(t)
                    THEN [tasks EXCEPT ![t] = "cancelled"]
                    ELSE tasks
    /\ IF cleanup_i < Len(tasks_to_cancel)
       THEN /\ cleanup_i' = cleanup_i + 1
            /\ UNCHANGED wd_pc
       ELSE /\ cleanup_i' = 0
            /\ wd_pc' = "closing"
    /\ UNCHANGED <<start_pc, session, twilio_websocket, close_calls, ncleanup, process,
                   other_session, notLife>>

\* "if self.session: await self.session.close()", errors printed
cleanup_close ==
    /\ process = "up" /\ wd_pc = "closing"
    /\ IF session # None
       THEN /\ close_calls' = close_calls + 1
            /\ session' = "closed"
       ELSE UNCHANGED <<close_calls, session>>
    /\ wd_pc' = "idle"
    /\ UNCHANGED <<start_pc, tasks, twilio_websocket, cleanup_i, ncleanup, process,
                   other_session, notLife>>

\* what the handler does by itself
LifeSteps ==
    \/ message_loop_error
    \/ wait_until_done_finally
    \/ cleanup_cancel
    \/ cleanup_close

LifeNext ==
    \/ \E ok \in BOOLEAN : start(ok)
    \/ \E ok \in BOOLEAN : start_entered(ok)
    \/ handle_stop
    \/ websocket_disconnect
    \/ realtime_session_loop_error
    \/ keepalive_loop_error
    \/ wait_until_done
    \/ cleanup_tasks
    \/ LifeSteps

\* ======================================================================
\* TwilioWebSocketManager and media_stream_endpoint (src/twilio/server.py)
\* ======================================================================

\* connections to /media-stream; the handler a connection creates is named
\* after the connection
Conns == {1, 2}
\* start.callSid of a 'start' message, None when the message has none
CallSids == {"CA1"}
\* handler = None
NoHandler == 0

\* d[k] = v on a dict
Put(d, k, v) == [x \in DOMAIN d \cup {k} |-> IF x = k THEN v ELSE d[x]]

\* del d[k] when k is in d
Drop(d, k) == [x \in DOMAIN d \ {k} |-> d[x]]

TwilioWebSocketManager_init ==
    /\ call_sessions = {}
    /\ pending_handlers = <<>>
    /\ active_handlers = <<>>
    /\ calling_websockets = {}
    /\ current_call_sid = None
    /\ conn_pc = [c \in Conns |-> "recv"]
    /\ conn_call = [c \in Conns |-> None]
    /\ conn_stream = [c \in Conns |-> None]
    /\ conn_handler = [c \in Conns |-> NoHandler]
    /\ running = {}

\* POST /make-call: make_outbound_call stores the new call
make_call_endpoint(call) ==
    /\ call \notin call_sessions
    /\ call_sessions' = call_sessions \cup {call}
    /\ UNCHANGED <<pending_handlers, active_handlers, calling_websockets, current_call_sid,
                   conn_pc, conn_call, conn_stream, conn_handler, running, notReg>>

\* /ws/calling-by-no, 'start': make_outbound_call, register_calling_websocket
calling_websocket_endpoint(call) ==
    /\ current_call_sid # "closed"
    /\ call \notin call_sessions
    /\ call_sessions' = call_sessions \cup {call}
    /\ calling_websockets' = calling_websockets \cup {call}
    /\ current_call_sid' = call
    /\ UNCHANGED <<pending_handlers, active_handlers, conn_pc, conn_call, conn_stream,
                   conn_handler, running, notReg>>

\* manager.cleanup_call(call_sid, stream_sid)
cleanup_call(call, stream) ==
    /\ pending_handlers' = Drop(pending_handlers, call)
    /\ active_handlers' = IF stream # None
                          THEN Drop(active_handlers, stream)
                          ELSE active_handlers
    /\ calling_websockets' = calling_websockets \ {call}
    /\ call_sessions' = call_sessions \ {call}

\* /ws/calling-by-no: WebSocketDisconnect
calling_websocket_disconnect ==
    /\ current_call_sid # "closed"
    /\ IF current_call_sid # None
       THEN cleanup_call(current_call_sid, None)
       ELSE UNCHANGED <<pending_handlers, active_handlers, calling_websockets, call_sessions>>
    /\ current_call_sid' = "closed"
    /\ UNCHANGED <<conn_pc, conn_call, conn_stream, conn_handler, running, notReg>>

\* the "finally" of media_stream_endpoint
endpoint_finally(call, stream) ==
    IF call # None
    THEN cleanup_call(call, stream)
    ELSE UNCHANGED <<pending_handlers, active_handlers, calling_websockets, call_sessions>>

\* 'start': pick or create the handler, register it, call handler.start()
endpoint_start(c, stream, call) ==
    /\ conn_pc[c] = "recv"
    /\ LET outbound == call # None /\ call \in call_sessions
           reuse == outbound /\ call \in DOMAIN pending_handlers
           handler == IF reuse THEN pending_handlers[call] ELSE c
       IN  /\ pending_handlers' = IF outbound /\ ~reuse
                                  THEN Put(pending_handlers, call, handler)
                                  ELSE pending_handlers
           /\ active_handlers' = IF stream # None
                                 THEN Put(active_handlers, stream, handler)
                                 ELSE active_handlers
           /\ conn_handler' = [conn_handler EXCEPT ![c] = handler]
    /\ conn_call' = [conn_call EXCEPT ![c] = call]
    /\ conn_stream' = [conn_stream EXCEPT ![c] = stream]
    /\ conn_pc' = [conn_pc EXCEPT ![c] = "starting"]
    /\ UNCHANGED <<call_sessions, calling_websockets, current_call_sid, running, notReg>>

\* handler.start() returns or raises; the endpoint returns unless it has a
\* calling interface to notify first
endpoint_started(c, ok) ==
    /\ conn_pc[c] = "starting"
    /\ running' = IF ok THEN running \cup {conn_handler[c]} ELSE running
    /\ IF ok /\ conn_call[c] \in calling_websockets
       THEN /\ conn_pc' = [conn_pc EXCEPT ![c] = "notify"]
            /\ UNCHANGED <<pending_handlers, active_handlers, calling_websockets,
                           call_sessions>>
       ELSE /\ conn_pc' = [conn_pc EXCEPT ![c] = "returned"]
            /\ endpoint_finally(conn_call[c], conn_stream[c])
    /\ UNCHANGED <<current_call_sid, conn_call, conn_stream, conn_handler, notReg>>

\* notify_media_stream_connected returned (its errors are caught): return
endpoint_notified(c) ==
    /\ conn_pc[c] = "notify"
    /\ conn_pc' = [conn_pc EXCEPT ![c] = "returned"]
    /\ endpoint_finally(conn_call[c], conn_stream[c])
    /\ UNCHANGED <<current_call_sid, conn_call, conn_stream, conn_handler, running, notReg>>

\* 'connected', 'media', 'stop', 'mark' or anything else before 'start'
endpoint_ignored(c) ==
    /\ conn_pc[c] = "recv"
    /\ UNCHANGED vars

\* WebSocketDisconnect from receive_text before any 'start'
endpoint_disconnect(c) ==
    /\ conn_pc[c] = "recv"
    /\ conn_pc' = [conn_pc EXCEPT ![c] = "returned"]
    /\ endpoint_finally(conn_call[c], conn_stream[c])
    /\ UNCHANGED <<current_call_sid, conn_call, conn_stream, conn_handler, running, notReg>>

RegistryNext ==
    \/ \E call \in CallSids : make_call_endpoint(call)
    \/ \E call \in CallSids : calling_websocket_endpoint(call)
    \/ calling_websocket_disconnect
    \/ \E c \in Conns, stream \in StreamSids \cup {None}, call \in CallSids \cup {None} :
           endpoint_start(c, stream, call)
    \/ \E c \in Conns, ok \in BOOLEAN : endpoint_started(c, ok)
    \/ \E c \in Conns : endpoint_notified(c)
    \/ \E c \in Conns : endpoint_ignored(c)
    \/ \E c \in Conns : endpoint_disconnect(c)

\* ======================================================================
\* AudioBridge on its own (src/cli/test1.py)
\* ======================================================================

\* byte lengths of the PCM16@24k chunks given to the encoder: 10 ms, 20 ms plus
\* one sample, 40 ms, one sample
EncodeLens == ChunkLens \cup {2}
\* how many 20 ms frames one decode call is given
Groups == {1, 2, 3}

AudioBridge_init ==
    /\ br_to_model_state = NoState
    /\ br_to_caller_state = NoState
    /\ br_frames = <<>>
    /\ br_last8k = 0
    /\ br_log = <<>>
    /\ br_total8k = 0
    /\ br_nframes = 0
    /\ br_k = 0

RECURSIVE split_emits_tail(_, _)
\* mutant of split: the short tail is emitted as a frame of its own
split_emits_tail(i, len) ==
    IF i >= len THEN <<>>
    ELSE LET chunk == Min(frame_bytes, len - i)
         IN  <<chunk \div BYTES_PER_SAMPLE>> \o split_emits_tail(i + frame_bytes, len)

RECURSIVE split(_, _)
\* "for i in range(0, len(lin16_8k), frame_bytes)" from offset i on: the
\* mu-law byte count of each frame appended (lin2ulaw: one byte per sample)
split(i, len) ==
    IF i >= len THEN <<>>
    ELSE LET chunk == Min(frame_bytes, len - i)
         IN  IF chunk < frame_bytes THEN <<>>
             ELSE <<chunk \div BYTES_PER_SAMPLE>> \o split(i + frame_bytes, len)

\* what one call of model_pcm16_to_twilio_ulaw_chunks does to the bridge
encode(nbytes) ==
    LET r == ratecv(nbytes \div BYTES_PER_SAMPLE, MODEL_SR, TWILIO_SR, br_to_caller_state)
        lin16_8k == r.n * BYTES_PER_SAMPLE
        out == split(0, lin16_8k)
    IN  /\ br_to_caller_state' = r.state
        /\ br_frames' = out
        /\ br_last8k' = lin16_8k
        /\ br_total8k' = br_total8k + lin16_8k
        /\ br_nframes' = br_nframes + Len(out)

\* bridge.model_pcm16_to_twilio_ulaw_chunks(pcm16_24k) with len(pcm16_24k) = nbytes
encode_call(nbytes) ==
    /\ Len(br_log) < MaxBridgeCalls
    /\ encode(nbytes)
    /\ br_log' = Append(br_log, <<"encode", nbytes>>)
    /\ UNCHANGED <<br_to_model_state, br_k, notBridge>>

\* bridge.twilio_ulaw_to_model_pcm16(b_ulaw) with b_ulaw holding j 20 ms frames
decode_call(j) ==
    /\ Len(br_log) < MaxBridgeCalls
    /\ br_to_model_state' =
           twilio_ulaw_to_model_pcm16(j * (frame_bytes \div BYTES_PER_SAMPLE),
                                      br_to_model_state).state
    /\ br_k' = br_k + j
    /\ br_log' = Append(br_log, <<"decode", j>>)
    /\ UNCHANGED <<br_to_caller_state, br_frames, br_last8k, br_total8k, br_nframes,
                   notBridge>>

\* decode j frames and give the PCM the decoder returned to the encoder
roundtrip(j) ==
    /\ Len(br_log) < MaxBridgeCalls
    /\ LET pcm == twilio_ulaw_to_model_pcm16(j * (frame_bytes \div BYTES_PER_SAMPLE),
                                             br_to_model_state)
       IN  /\ br_to_model_state' = pcm.state
           /\ encode(pcm.n * BYTES_PER_SAMPLE)
    /\ br_k' = br_k + j
    /\ br_log' = Append(br_log, <<"roundtrip", j>>)
    /\ UNCHANGED notBridge

BridgeNext ==
    \/ \E nbytes \in EncodeLens : encode_call(nbytes)
    \/ \E j \in Groups : decode_call(j)

RoundTripNext == \E j \in Groups : roundtrip(j)

\* ---- the bridges of two media_ws connections ----------------------------

Fresh == [to_model |-> NoState, to_caller |-> NoState]

media_ws_bridges_init ==
    /\ bs_open = {}
    /\ bs_state = [i \in Conns |-> Fresh]
    /\ bs_log = <<>>

\* one module-level bridge for every connection
shared_bridge(c) == 1

\* "bridge = AudioBridge()" is a local of media_ws: the instance connection c
\* works with is the one its own call of media_ws made
bridge(c) == c

\* media_ws: ws.accept(), bridge = AudioBridge()
media_ws_accept(c) ==
    /\ c \notin bs_open
    /\ bs_open' = bs_open \cup {c}
    /\ bs_state' = [bs_state EXCEPT ![c] = Fresh]
    /\ UNCHANGED <<bs_log, notSess>>

\* read_from_twilio of connection c: bridge.twilio_ulaw_to_model_pcm16(ulaw_bytes)
bridge_inbound(c, nbytes) ==
    /\ c \in bs_open
    /\ Len(bs_log) < MaxSessionCalls
    /\ LET conv == twilio_ulaw_to_model_pcm16(nbytes, bs_state[bridge(c)].to_model)
       IN  bs_state' = [bs_state EXCEPT ![bridge(c)].to_model = conv.state]
    /\ bs_log' = Append(bs_log, [dir |-> "in", conn |-> c, n |-> nbytes])
    /\ UNCHANGED <<bs_open, notSess>>

\* pump_model_events of connection c:
\* bridge.model_pcm16_to_twilio_ulaw_chunks(event.audio.data)
bridge_outbound(c, nbytes) ==
    /\ c \in bs_open
    /\ Len(bs_log) < MaxSessionCalls
    /\ LET conv == model_pcm16_to_twilio_ulaw_chunks(nbytes, bs_state[bridge(c)].to_caller)
       IN  bs_state' = [bs_state EXCEPT ![bridge(c)].to_caller = conv.state]
    /\ bs_log' = Append(bs_log, [dir |-> "out", conn |-> c, n |-> nbytes])
    /\ UNCHANGED <<bs_open, notSess>>

BridgesNext ==
    \/ \E c \in Conns : media_ws_accept(c)
    \/ \E c \in Conns, nbytes \in MediaLens : bridge_inbound(c, nbytes)
    \/ \E c \in Conns, nbytes \in ChunkLens : bridge_outbound(c, nbytes)

\* ======================================================================
\* media_ws: its three tasks and the teardown (src/cli/test1.py)
\* ======================================================================
\* The audio itself is left to the sections above; here a task is running,
\* has returned, or has been cancelled.

MwTasks == {"pump_model_events", "flush_to_caller", "read_from_twilio"}

media_ws_tasks_init ==
    /\ mw_tasks = [t \in MwTasks |-> "running"]
    /\ mw_pc = "wait"
    /\ mw_session = "open"
    /\ mw_ws = "open"
    /\ mw_events = 0
    /\ mw_msgs = 0
    /\ mw_bad = {}
    /\ mw_other = FALSE

\* a task runs its own code only while nobody has called cancel() on it
Runs(t) == mw_tasks[t] = "running"

\* an exception reaches the "except Exception" around the task's loop (or the
\* loop ends): the coroutine returns
TaskReturns(t) == [mw_tasks EXCEPT ![t] = "done"]

\* an 'audio' event with well-formed data, or any other event
pump_handles_event ==
    /\ Runs("pump_model_events")
    /\ mw_events < MaxMwSteps
    /\ mw_events' = mw_events + 1
    /\ UNCHANGED <<mw_tasks, mw_pc, mw_session, mw_ws, mw_msgs, mw_bad, mw_other, notMw>>

\* an 'audio' event whose data has an odd length: audioop.ratecv raises
\* audioop.error inside model_pcm16_to_twilio_ulaw_chunks
pump_malformed_audio ==
    /\ Runs("pump_model_events")
    /\ mw_events < MaxMwSteps
    /\ mw_events' = mw_events + 1
    /\ mw_bad' = mw_bad \cup {"pump_model_events"}
    /\ mw_tasks' = TaskReturns("pump_model_events")
    /\ UNCHANGED <<mw_pc, mw_session, mw_ws, mw_msgs, mw_other, notMw>>

\* the agent session's event stream ends
pump_stream_ends ==
    /\ Runs("pump_model_events")
    /\ mw_tasks' = TaskReturns("pump_model_events")
    /\ mw_other' = TRUE
    /\ UNCHANGED <<mw_pc, mw_session, mw_ws, mw_events, mw_msgs, mw_bad, notMw>>

\* ws.send_text raises in the pacing loop
flush_send_fails ==
    /\ Runs("flush_to_caller")
    /\ mw_tasks' = TaskReturns("flush_to_caller")
    /\ mw_other' = TRUE
    /\ UNCHANGED <<mw_pc, mw_session, mw_ws, mw_events, mw_msgs, mw_bad, notMw>>

\* a well-formed 'start', 'media' or 'mark' message
read_handles_message ==
    /\ Runs("read_from_twilio")
    /\ mw_msgs < MaxMwSteps
    /\ mw_msgs' = mw_msgs + 1
    /\ UNCHANGED <<mw_tasks, mw_pc, mw_session, mw_ws, mw_events, mw_bad, mw_other, notMw>>

\* a 'media' message whose payload does not decode: base64.b64decode raises
\* binascii.Error (or evt["media"]["payload"] raises KeyError)
read_malformed_media ==
    /\ Runs("read_from_twilio")
    /\ mw_msgs < MaxMwSteps
    /\ mw_msgs' = mw_msgs + 1
    /\ mw_bad' = mw_bad \cup {"read_from_twilio"}
    /\ mw_tasks' = TaskReturns("read_from_twilio")
    /\ UNCHANGED <<mw_pc, mw_session, mw_ws, mw_events, mw_other, notMw>>

\* 'stop' (break) or WebSocketDisconnect
read_stops ==
    /\ Runs("read_from_twilio")
    /\ mw_tasks' = TaskReturns("read_from_twilio")
    /\ mw_other' = TRUE
    /\ UNCHANGED <<mw_pc, mw_session, mw_ws, mw_events, mw_msgs, mw_bad, notMw>>

\* asyncio.wait(FIRST_COMPLETED) returns: t.cancel() for the pending tasks,
\* t.exception() for the done ones, then the "async with" block is left
wait_returns ==
    /\ mw_pc = "wait"
    /\ \E t \in MwTasks : mw_tasks[t] = "done"
    /\ mw_tasks' = [t \in MwTasks |->
                        IF mw_tasks[t] = "running" THEN "cancelling" ELSE mw_tasks[t]]
    /\ mw_pc' = "exiting"
    /\ UNCHANGED <<mw_session, mw_ws, mw_events, mw_msgs, mw_bad, mw_other, notMw>>

\* the event loop runs a task cancel() was called on: CancelledError is raised
\* at its await, passes "except Exception" and ends the task
task_cancelled(t) ==
    /\ mw_tasks[t] = "cancelling"
    /\ mw_tasks' = [mw_tasks EXCEPT ![t] = "cancelled"]
    /\ UNCHANGED <<mw_pc, mw_session, mw_ws, mw_events, mw_msgs, mw_bad, mw_other, notMw>>

\* session.__aexit__: the agent session is closed
session_exit ==
    /\ mw_pc = "exiting"
    /\ mw_session' = "closed"
    /\ mw_pc' = "ws_close"
    /\ UNCHANGED <<mw_tasks, mw_ws, mw_events, mw_msgs, mw_bad, mw_other, notMw>>

\* await ws.close() (its errors are swallowed), "Session ended"
ws_close ==
    /\ mw_pc = "ws_close"
    /\ mw_ws' = "closed"
    /\ mw_pc' = "returned"
    /\ UNCHANGED <<mw_tasks, mw_session, mw_events, mw_msgs, mw_bad, mw_other, notMw>>

MediaTasksNext ==
    \/ pump_handles_event
    \/ pump_malformed_audio
    \/ pump_stream_ends
    \/ flush_send_fails
    \/ read_handles_message
    \/ read_malformed_media
    \/ read_stops
    \/ wait_returns
    \/ \E t \in MwTasks : task_cancelled(t)
    \/ session_exit
    \/ ws_close

\* ======================================================================
\* Specifications
\* ======================================================================

Init ==
    /\ media_ws_init
    /\ NoUIDemo_init
    /\ TwilioHandler_init
    /\ TwilioHandler_out_init
    /\ TwilioHandler_life_init
    /\ TwilioWebSocketManager_init
    /\ AudioBridge_init
    /\ media_ws_tasks_init
    /\ NoUIDemo_input_init
    /\ TwilioHandler_flush_init
    /\ media_ws_bridges_init

SpecMedia == Init /\ [][MediaNext]_vars

SpecDemo == Init /\ [][DemoNext]_vars

\* the audio driver keeps invoking _output_callback and a callback that has
\* started runs to its end
OutputCallbackSteps ==
    \/ output_callback
    \/ output_flush_clear
    \/ output_flush_reset
    \/ output_flush_ready
    \/ output_preroll
    \/ output_preroll_size
    \/ output_preroll_set
    \/ output_play

\* the event loop finishes the handling of an event it has begun; whether
\* another event arrives is up to the agent session
OnEventSteps ==
    \/ on_agent_start_block
    \/ on_audio_drop_oldest
    \/ on_audio_reput
    \/ on_audio_preroll
    \/ on_audio_preroll_size
    \/ on_audio_preroll_set
    \/ on_audio_end_unblock
    \/ on_audio_interrupted_set

SpecDemoLive ==
    /\ Init /\ [][DemoNext]_vars
    /\ WF_vars(OutputCallbackSteps)
    /\ WF_vars(OnEventSteps)

SpecMic == Init /\ [][MicNext]_vars

SpecFlush == Init /\ [][FlushNext]_vars

SpecBridges == Init /\ [][BridgesNext]_vars

SpecInbound == Init /\ [][InboundNext]_vars

SpecOutbound == Init /\ [][OutboundNext]_vars

SpecLife == Init /\ [][LifeNext]_vars

SpecRegistry == Init /\ [][RegistryNext]_vars

SpecBridge == Init /\ [][BridgeNext]_vars

SpecRoundTrip == Init /\ [][RoundTripNext]_vars

SpecMediaTasks == Init /\ [][MediaTasksNext]_vars

\* the message loop with its 'start', 'media' and 'mark' messages, next to a
\* realtime loop that delivers the 'audio' events of one item (which fill the
\* mark table)
MessageLoopNext ==
    \/ \E sid \in StreamSids : media_stream_endpoint(sid)
    \/ handle_audio("item_a", 0)
    \/ handle_audio_mark
    \/ handle_audio_done
    \/ \E sid \in StreamSids : handle_start(sid)
    \/ handle_start_done
    \/ \E n \in PayloadLens : handle_media_event(n)
    \/ handle_media_event_malformed
    \/ media_flush_done(TRUE)

SpecMessageLoop == Init /\ [][MessageLoopNext]_vars

\* the event loop runs every task that is ready; whether the connection
\* drops, a loop fails or somebody calls wait_until_done is up to the
\* environment
SpecLifeLive == Init /\ [][LifeNext]_vars /\ WF_vars(LifeSteps)

\* the event loop keeps running every task that is ready, the clock advances,
\* and session.send_audio returns
SpecInboundLive ==
    /\ Init
    /\ [][InboundNextOk]_vars
    /\ WF_vars(clock_tick)
    /\ WF_vars(\E late \in BOOLEAN : buffer_flush_loop(late))
    /\ WF_vars(loop_flush_done(TRUE))
    /\ WF_vars(media_flush_done(TRUE))

\* ----------------------------------------------------------------------
\* Properties of NoUIDemo
\* ----------------------------------------------------------------------

\* C4: the jitter buffer never holds more than MAX_QUEUE chunks, and once the
\* 'audio' branch has finished with a chunk that chunk has been inserted: an
\* arrival at a full buffer costs the oldest chunk, never the new one.
C4_DropOldestKeepsNewest ==
    /\ Len(output_queue) <= MAX_QUEUE
    /\ ev_pc \notin {"full", "reput"} => queued = 1..arrived

\* the capacity half of C4 on its own
JitterBufferBounded ==
    Len(output_queue) <= MAX_QUEUE

\* ----------------------------------------------------------------------
\* Properties of media_ws
\* ----------------------------------------------------------------------

CancelEvent == [type |-> "response.cancel"]
Payloads(msgs) == [i \in 1..Len(msgs) |-> msgs[i].payload]
IsSuffix(s, t) == Len(s) <= Len(t) /\ s = SubSeq(t, Len(t) - Len(s) + 1, Len(t))

\* C1: a 'media' message whose decoded peak exceeds VAD_PEAK, received while
\* is_playing_tts is true, is handled as a barge-in: in the step that receives
\* it is_playing_tts becomes false and 'response.cancel' is handed to the agent
\* session, and the handling of that same message goes on (unless the session
\* is torn down meanwhile) to an empty to_caller, before the frame is forwarded
\* and before the next message is received.
C1_BargeInWithinStep ==
    [][ /\ (rd_pc = "recv" /\ nmedia' = nmedia + 1 /\ is_playing_tts /\ rd_peak' > VAD_PEAK)
            => /\ rd_pc' = "cancel"
               /\ ~is_playing_tts'
               /\ agent_in' = Append(agent_in, CancelEvent)
        /\ (rd_pc = "cancel" /\ rd_pc' # "cancel")
            => \/ rd_pc' = "cancelled"
               \/ /\ rd_pc' = "send_audio"
                  /\ to_caller' = <<>>
                  /\ agent_in' = Append(agent_in, rd_pcm)
      ]_vars

\* a barge-in has been carried through: the queue was cleared at its end
C1_Witness ==
    /\ barge.done
    /\ rd_pc = "send_audio"
    /\ flushed # {}
    /\ CancelEvent \in Range(agent_in)

\* C2: the interruption flush is atomic: no frame that was queued when the
\* barge-in was detected is transmitted afterwards, and no frame is enqueued
\* between the detection and the clear.
C2_FlushAtomic ==
    barge.active =>
        /\ \A i \in (barge.sent_mark + 1)..Len(ws_out) : ws_out[i].payload \notin barge.snap
        /\ Len(enq) = barge.enq_mark

\* C3: after one, two or more interruptions fired back to back (local barge-in
\* or 'audio_interrupted', nothing of the agent's next utterance in between)
\* the queue is empty and is_playing_tts is false.
C3_InterruptIdempotent ==
    streak # <<>> => (to_caller = <<>> /\ ~is_playing_tts)

\* two interruptions in a row, one of each kind
C3_Witness ==
    /\ streak = <<"local", "agent">>
    /\ flushed # {}

\* C5: to_caller never holds more than a fixed capacity of frames.
C5_QueueBounded ==
    Len(to_caller) <= RelayCapacity

\* C6: what was transmitted is a subsequence of what was enqueued, without
\* duplicates, and a frame that is neither queued nor transmitted was removed
\* by an interruption flush.
C6_FifoOnlyFlushLoses ==
    /\ IsSubSeq(Payloads(ws_out), enq)
    /\ Cardinality(Range(Payloads(ws_out))) = Len(ws_out)
    /\ (Range(enq) \ (Range(to_caller) \cup Range(Payloads(ws_out)))) \subseteq flushed

\* the ordering half of C6 on its own
FifoOrder ==
    /\ IsSubSeq(Payloads(ws_out), enq)
    /\ Cardinality(Range(Payloads(ws_out))) = Len(ws_out)

\* C7: a pacing tick that removes a frame removes the head and transmits that
\* same frame as one 'media' message; nothing is transmitted otherwise.
C7_TickTransmitsHead ==
    [][ /\ popped' # popped
            => /\ to_caller # <<>>
               /\ to_caller' = Tail(to_caller)
               /\ popped' = popped \cup {Head(to_caller)}
               /\ ws_out' = Append(ws_out, [event |-> "media", payload |-> Head(to_caller)])
        /\ ws_out' # ws_out => popped' # popped
      ]_vars

\* C8: every 'audio' event appends exactly the frames the bridge returned for
\* its chunk, in order, at the tail of to_caller, and to_caller is always a
\* suffix of all frames produced so far in chunk order; over agent_start,
\* n audio chunks, audio_end without interruption is_playing_tts rises once
\* and falls once.
C8_UtteranceScenario ==
    /\ [][nchunks' = nchunks + 1 =>
            /\ produced' = Append(produced, Len(to_caller') - Len(to_caller))
            /\ to_caller' = to_caller \o ChunkFrames(nchunks', produced'[nchunks'])]_vars
    /\ [](IsSuffix(to_caller, FramesOf(produced, 1, nchunks)))
    /\ [](utt.st = "closed" => (utt.rises = 1 /\ utt.falls = 1 /\ ~is_playing_tts))

\* an utterance of two chunks and at least three frames has ended normally
C8_Witness ==
    /\ utt.st = "closed"
    /\ utt.chunks = 2
    /\ Len(enq) >= 3


\* ----------------------------------------------------------------------
\* Properties of the TwilioHandler inbound path
\* ----------------------------------------------------------------------

RECURSIVE Flatten(_)
Flatten(ss) == IF ss = <<>> THEN <<>> ELSE Head(ss) \o Flatten(Tail(ss))

\* the payloads handed to the agent session, in call order (failed calls apart)
Forwarded ==
    Flatten([i \in 1..Len(send_audio_calls) |->
                IF send_audio_calls[i].status = "failed" THEN <<>>
                ELSE send_audio_calls[i].data])

\* C9: every payload received is forwarded exactly once and in arrival order:
\* what was forwarded has no payload twice, is in arrival order, and a payload
\* not forwarded yet is still in the buffer.
C9_ForwardedExactlyOnce ==
    /\ \A i, j \in 1..Len(Forwarded) : i < j => Forwarded[i].id < Forwarded[j].id
    /\ \A k \in 1..nrecv :
          \/ \E i \in 1..Len(Forwarded) : Forwarded[i].id = k
          \/ \E i \in 1..Len(audio_buffer) : audio_buffer[i].id = k

\* C10: a non-empty buffer is eventually emptied by a flush; a media event
\* that brings the buffer to BUFFER_SIZE_BYTES or more calls send_audio with
\* the whole buffer in the same step; the flush loop sends only a non-empty
\* buffer whose last send is more than 2 * CHUNK_LENGTH_S old (at least two
\* ticks); when send_audio returns the buffer is empty; and the buffer is
\* emptied by nothing but a send_audio call that returned.
C10_BufferEventuallyFlushed ==
    /\ (audio_buffer # <<>>) ~> (audio_buffer = <<>>)
    /\ [][ /\ (nrecv' = nrecv + 1 /\ ByteLen(audio_buffer') >= BUFFER_SIZE_BYTES)
               => send_audio_calls' = Append(send_audio_calls, Call(audio_buffer'))
           /\ (bf_pc = "ready" /\ bf_pc' = "send")
               => /\ audio_buffer # <<>>
                  /\ since_send >= 2
                  /\ send_audio_calls' = Append(send_audio_calls, Call(audio_buffer))
           /\ (ml_pc = "send" /\ ml_pc' = "recv") \/ (bf_pc = "send" /\ bf_pc' = "sleep")
               => audio_buffer' = <<>> /\ since_send' = 0
           /\ (audio_buffer # <<>> /\ audio_buffer' = <<>>)
               => \E i \in 1..Len(send_audio_calls) :
                      /\ send_audio_calls[i].status = "pending"
                      /\ send_audio_calls'[i].status = "ok"
         ]_vars

\* a buffer below BUFFER_SIZE_BYTES was sent by the flush loop, and emptied
C10_Witness ==
    /\ audio_buffer = <<>>
    /\ \E i \in 1..Len(send_audio_calls) :
          /\ send_audio_calls[i].status = "ok"
          /\ ByteLen(send_audio_calls[i].data) < BUFFER_SIZE_BYTES


\* ----------------------------------------------------------------------
\* Properties of the TwilioHandler outbound path and marks
\* ----------------------------------------------------------------------

\* C11: a mark identifier is never allocated while a record with that
\* identifier is pending, nor was it ever allocated before (both paths share
\* the counter); and a 'mark' message whose name is not in _mark_data changes
\* nothing of the handler and calls the playback tracker zero times.
C11_MarkIdsFresh ==
    [][ /\ mark_counter' # mark_counter
            => /\ str(mark_counter') \notin DOMAIN mark_data
               /\ str(mark_counter') \notin DOMAIN marked
               /\ str(mark_counter') \in DOMAIN mark_data'
        /\ \A name \in MarkNames :
              (name \notin DOMAIN mark_data /\ handle_mark_event(name))
                  => UNCHANGED <<handler_stream_sid, mark_counter, mark_data,
                                 processed_audio_items, rt_pc, rt_ev, twilio_out, tw_open,
                                 play_calls, ml_pc>>
      ]_vars

\* marks of the 'audio' path and of the history path are pending together, and
\* a 'mark' message with an unknown name was handled
C11_Witness ==
    /\ \E j, k \in DOMAIN mark_data : j # k /\ mark_data[j].n = 800 /\ mark_data[k].n = 9000
    /\ "unknown" \in ack_kinds
    /\ play_calls = <<>>

\* C12: on_play_bytes is called at most once per allocated mark identifier,
\* whatever 'mark' messages arrive, and the call deletes the record.
C12_MarkConsumedOnce ==
    /\ [](\A i, j \in 1..Len(play_calls) : i # j => play_calls[i].name # play_calls[j].name)
    /\ [][play_calls' # play_calls
            => /\ Len(play_calls') = Len(play_calls) + 1
               /\ play_calls'[Len(play_calls')].name \in DOMAIN mark_data
               /\ play_calls'[Len(play_calls')].name \notin DOMAIN mark_data'
         ]_vars

\* a mark was acknowledged, and acknowledged again after it was consumed
C12_Witness ==
    /\ Len(play_calls) = 1
    /\ "consumed" \in ack_kinds

\* the messages the realtime loop sent, 'clear' messages apart
MediaAndMarks == SelectSeq(twilio_out, LAMBDA m : m.event # "clear")

\* C13: every 'media' message sent is followed by a 'mark' message with a
\* newly allocated identifier whose record holds the byte length of exactly
\* that chunk (while the connection is up; the last 'media' may still be
\* waiting for its mark inside the handler that sent it).
C13_EveryMediaMarked ==
    tw_open =>
        \A i \in 1..Len(MediaAndMarks) :
            MediaAndMarks[i].event = "media" =>
                IF i = Len(MediaAndMarks)
                THEN rt_pc \in {"audio_media", "hist_media"}
                ELSE /\ MediaAndMarks[i + 1].event = "mark"
                     /\ MediaAndMarks[i + 1].name \in DOMAIN marked
                     /\ marked[MediaAndMarks[i + 1].name].n = MediaAndMarks[i].n

RECURSIVE SumN(_)
SumN(calls) == IF calls = <<>> THEN 0 ELSE Head(calls).n + SumN(Tail(calls))

\* bytes reported to the playback tracker for the item
Played(item) == SumN(SelectSeq(play_calls, LAMBDA c : c.item = item))

\* bytes transmitted under the item's acknowledged marks
AckedSent(item) ==
    SumN([i \in 1..Len(play_calls) |->
            IF play_calls[i].item = item THEN [n |-> marked[play_calls[i].name].n]
            ELSE [n |-> 0]])

\* C14: for every item the bytes reported to the playback tracker equal the
\* bytes transmitted under its acknowledged marks, and never exceed the audio
\* bytes the agent session produced for the item.
C14_PlaybackExact ==
    \A item \in Items :
        /\ Played(item) = AckedSent(item)
        /\ Played(item) <= AudioLen(item)

\* the first half alone: what is reported is what was transmitted and acknowledged
PlaybackMatchesAcked == \A item \in Items : Played(item) = AckedSent(item)

\* C20: once the endpoint has received the provider's 'start' with streamSid
\* s, every 'media', 'mark' and 'clear' message the handler sends carries s.
C20_BoundToStreamSid ==
    \A i \in 1..Len(twilio_out) : twilio_out[i].streamSid = bound_sid


\* ----------------------------------------------------------------------
\* Properties of the TwilioHandler life cycle
\* ----------------------------------------------------------------------

\* the closed state: the four tasks are over and the agent session is closed
Closed ==
    /\ \A t \in TaskNames : tasks[t] \in {"done", "cancelled"}
    /\ session = "closed"

\* C15: once the provider has reported 'stop' or the connection has dropped
\* on a started session, the session eventually reaches the closed state.
C15_StopLeadsToClosed ==
    (start_pc = "started" /\ twilio_websocket \in {"stopped", "dropped"}) ~> Closed

\* C16: over the life of a handler session.close() is invoked at most once,
\* however often the cleanup runs and whichever exit path is taken.
C16_CloseOnce == close_calls <= 1

\* C17: the cleanup can be called in every state, a failed start() included:
\* it does not raise, and once it has returned no task is running and no
\* agent session is left open.
C17_CleanupFromAnyState ==
    /\ wd_pc # "raised"
    /\ (ncleanup > 0 /\ wd_pc = "idle")
           => /\ \A t \in TaskNames : tasks[t] # "running"
              /\ session \in {None, "closed"}

\* C18: when one background task has ended abnormally, all four tasks are
\* eventually over.
C18_NoZombieTasks ==
    (\E t \in TaskNames : tasks[t] = "done") ~> (\A t \in TaskNames : done(t))

\* C19: nothing that happens in this session ends another session of the
\* same process.
C19_SessionsIndependent == other_session = "running"

\* C21: the stream identifier is immutable once bound: after a 'start' has set
\* it, no later step (a second 'start' with another streamSid included)
\* changes it, in media_ws and in TwilioHandler alike.
C21_StreamSidImmutable ==
    [][ /\ (stream_sid # None => stream_sid' = stream_sid)
        /\ (handler_stream_sid # None => handler_stream_sid' = handler_stream_sid) ]_vars

\* the TwilioHandler half of C21 on its own
HandlerSidImmutable ==
    [][handler_stream_sid # None => handler_stream_sid' = handler_stream_sid]_vars

\* ----------------------------------------------------------------------
\* Properties of the session registry
\* ----------------------------------------------------------------------

\* C22: insert on start, remove on cleanup: while a handler's background tasks
\* run, active_handlers maps the session's stream_sid to that handler, and once
\* the session's cleanup has run the registry holds no entry of the session
\* under its stream_sid or its call_sid, with or without a call_sid.
C22_RegistryLifecycle ==
    \A c \in Conns :
        LET h == conn_handler[c]
            s == conn_stream[c]
            k == conn_call[c]
        IN  /\ (h \in running /\ s # None)
                => (s \in DOMAIN active_handlers /\ active_handlers[s] = h)
            /\ conn_pc[c] = "returned"
                => /\ ~(s \in DOMAIN active_handlers /\ active_handlers[s] = h)
                   /\ ~(k \in DOMAIN pending_handlers /\ pending_handlers[k] = h)

\* ----------------------------------------------------------------------
\* Properties of AudioBridge
\* ----------------------------------------------------------------------

\* C23: every frame model_pcm16_to_twilio_ulaw_chunks returns encodes exactly
\* frame_bytes (320) bytes of 8 kHz PCM, that is 160 mu-law bytes, and the
\* frames of a call hold no more audio than the resampler produced (no padding).
C23_FramesHaveFixedLength ==
    /\ \A i \in 1..Len(br_frames) :
           br_frames[i] * BYTES_PER_SAMPLE = frame_bytes
    /\ Len(br_frames) * frame_bytes <= br_last8k

\* an encode call returned a frame and left a short tail
C23_Witness ==
    /\ Len(br_frames) >= 1
    /\ br_last8k % frame_bytes # 0

\* C24: over any sequence of encode calls the number of frames returned is
\* floor(total resampled 8 kHz bytes / 320): a short tail is held back and
\* emitted once later data completes it.
C24_NoBytesLostAtBoundaries ==
    br_nframes = br_total8k \div frame_bytes

\* C25: k 20 ms frames decoded and re-encoded, one per call or several per
\* call, give between k-1 and k+1 frames.
C25_RoundTripFrameCount ==
    /\ br_nframes >= br_k - 1
    /\ br_nframes <= br_k + 1

\* a stream fed partly one frame per call, partly grouped
C25_Witness ==
    /\ br_k >= 4
    /\ \E i, j \in 1..Len(br_log) : br_log[i] = <<"roundtrip", 1>> /\ br_log[j][2] > 1
    /\ br_nframes = br_k

\* ----------------------------------------------------------------------
\* Properties of media_ws: tasks and teardown
\* ----------------------------------------------------------------------

\* C26: a malformed audio chunk, inbound or outbound, drops only that chunk:
\* as long as nothing else has ended a task, every task is still running after
\* it and the agent session is open.
C26_MalformedChunkIsLocal ==
    (mw_bad # {} /\ ~mw_other)
        => /\ \A t \in MwTasks : mw_tasks[t] = "running"
           /\ mw_session = "open"

\* C30: when one task has finished, the other two are cancelled and have
\* terminated before the agent session and the transport are closed, and no
\* task is left unfinished when media_ws returns.
C30_TasksTerminatedBeforeClose ==
    (mw_session = "closed" \/ mw_ws = "closed" \/ mw_pc = "returned")
        => \A t \in MwTasks : mw_tasks[t] \in {"done", "cancelled"}

\* the part of C30 the code does ensure: cancel() has been called on every
\* unfinished task before the session is closed
CancelRequestedBeforeClose ==
    mw_session = "closed" => \A t \in MwTasks : mw_tasks[t] # "running"

\* ----------------------------------------------------------------------
\* Properties of TwilioHandler: malformed input
\* ----------------------------------------------------------------------

\* C27: a 'media' message whose payload does not decode leaves the inbound
\* buffer, the mark table and the stream id as they were, and the message loop
\* is back at receive_text for the next message.
C27_MalformedMediaIsLocal ==
    [][ malformed_at' # malformed_at
            => /\ audio_buffer' = audio_buffer
               /\ mark_data' = mark_data
               /\ handler_stream_sid' = handler_stream_sid
               /\ ml_pc' = "recv" ]_vars

\* a payload that did not decode arrived while audio was buffered, a mark was
\* pending and the stream id was bound; the payload after it was buffered
C27_Witness ==
    /\ Len(malformed_at) >= 1
    /\ malformed_at[1].buffered >= 1
    /\ malformed_at[1].marks >= 1
    /\ malformed_at[1].sid # None
    /\ \E i \in 1..Len(audio_buffer) : audio_buffer[i].id > malformed_at[1].at
    /\ \E i \in 1..Len(audio_buffer) : audio_buffer[i].id <= malformed_at[1].at


FlushReturns == cb_pc = "flush_ready" /\ cb_pc' = "idle"

\* the output callback copies samples of a chunk into outdata
SamplePlayed == Len(outdata') > Len(outdata)

\* C29, first half: the callback that runs the interrupt flush returns with
\* the jitter buffer empty, no current chunk, position 0, ready_to_play
\* false, the interrupt flag cleared and only silence in outdata.
FlushLeavesResetState ==
    [][ FlushReturns
            => /\ output_queue' = <<>>
               /\ current_audio_chunk' = NoChunk
               /\ chunk_position' = 0
               /\ ~ready_to_play'
               /\ ~interrupt_event'
               /\ outdata' = <<>> ]_vars

\* C29, second half: after that return no sample is played until the queue
\* has again held at least PREROLL_CHUNKS chunks.
NoPlayBeforePreroll ==
    [][ SamplePlayed => ~preroll_due ]_vars

\* C29: after an 'audio_interrupted' event the next output callback leaves
\* the jitter buffer empty, current_audio_chunk = None, chunk_position = 0,
\* ready_to_play = False and the interrupt flag cleared and outputs only
\* silence; afterwards no sample is played until the queue again holds at
\* least PREROLL_CHUNKS chunks.
C29_FlushThenPreroll ==
    /\ FlushLeavesResetState
    /\ NoPlayBeforePreroll


\* what the flush keeps under every interleaving: the fields only the
\* callback thread writes, ready_to_play at the moment of the return, and
\* the silence
FlushResetsCallbackState ==
    [][ FlushReturns
            => /\ current_audio_chunk' = NoChunk
               /\ chunk_position' = 0
               /\ ~ready_to_play'
               /\ outdata' = <<>> ]_vars


\* ---------------------------------------------------------------- C31
\* the step that receives a 'media' message
MediaReceived == rd_pc = "recv" /\ nmedia' = nmedia + 1

\* C31: 'response.cancel' is handed to the agent session only by the step
\* that receives a 'media' message while is_playing_tts is true and the
\* decoded peak exceeds VAD_PEAK; a 'media' message received in any other
\* state is forwarded at once and leaves to_caller and is_playing_tts as they
\* were; and the frame that triggered the barge-in is forwarded when the
\* handler resumes after the cancel (unless the task is cancelled there).
C31_CancelOnlyOnBargeIn ==
    [][ /\ (Len(agent_in') > Len(agent_in) /\ agent_in'[Len(agent_in')] = CancelEvent)
            => (MediaReceived /\ is_playing_tts /\ rd_peak' > VAD_PEAK)
        /\ (MediaReceived /\ ~(is_playing_tts /\ rd_peak' > VAD_PEAK))
            => /\ agent_in' = Append(agent_in, rd_pcm')
               /\ to_caller' = to_caller
               /\ is_playing_tts' = is_playing_tts
        /\ (rd_pc = "cancel" /\ rd_pc' # "cancel")
            => (rd_pc' = "cancelled" \/ agent_in' = Append(agent_in, rd_pcm))
      ]_vars

\* the frame that triggered a barge-in was forwarded right after the cancel
C31_Witness ==
    /\ Len(agent_in) >= 2
    /\ agent_in[Len(agent_in) - 1] = CancelEvent
    /\ agent_in[Len(agent_in)] = rd_pcm
    /\ rd_peak > VAD_PEAK
    /\ ~is_playing_tts


\* ---------------------------------------------------------------- C32
\* items some of whose audio went out in a 'media' message that was followed
\* by the allocation of its mark
AudioSentItems == {marked[k].item : k \in DOMAIN marked}

\* C32: a 'history_updated' event starts transmitting the audio of an item
\* only if no audio of that item was transmitted before, by 'audio' events or
\* by an earlier 'history_updated' event.
C32_ItemAudioSentOnce ==
    [][ (rt_pc = "wait" /\ rt_pc' = "hist_media")
            => rt_ev'.item \notin AudioSentItems ]_vars

\* the part the code keeps: an item in _processed_audio_items is skipped
ProcessedItemsSkipped ==
    [][ (rt_pc = "wait" /\ rt_pc' = "hist_media")
            => rt_ev'.item \notin processed_audio_items ]_vars


\* ---------------------------------------------------------------- C33
\* the output callback plays samples of a chunk that arrived after the last
\* 'audio_end' (no 'audio_interrupted' since)
NextUtterancePlayed ==
    /\ SamplePlayed
    /\ ended_at # NotEnded
    /\ outdata'[Len(outdata')] > ended_at

\* C33: after an 'audio_end' the audio of the next utterance is not played
\* before at least PREROLL_CHUNKS chunks of it have arrived.
C33_NextUtterancePrerolls ==
    [][ NextUtterancePlayed => arrived - ended_at >= PREROLL_CHUNKS ]_vars


BridgeCall == bs_log'[Len(bs_log')]

\* C35: a call of twilio_ulaw_to_model_pcm16 on the bridge of a connection
\* writes _to_model_state from _to_model_state alone and leaves
\* _to_caller_state as it was, a call of model_pcm16_to_twilio_ulaw_chunks
\* does the same the other way round, and neither touches the states of the
\* bridge of another connection, in whatever order the tasks of the
\* connections make their calls.
C35_ResamplerStatesIndependent ==
    [][ Len(bs_log') > Len(bs_log)
            => /\ \A d \in Conns \ {BridgeCall.conn} :
                      bs_state'[bridge(d)] = bs_state[bridge(d)]
               /\ BridgeCall.dir = "in"
                      => /\ bs_state'[bridge(BridgeCall.conn)].to_caller
                                = bs_state[bridge(BridgeCall.conn)].to_caller
                         /\ bs_state'[bridge(BridgeCall.conn)].to_model
                                = twilio_ulaw_to_model_pcm16(
                                      BridgeCall.n,
                                      bs_state[bridge(BridgeCall.conn)].to_model).state
               /\ BridgeCall.dir = "out"
                      => /\ bs_state'[bridge(BridgeCall.conn)].to_model
                                = bs_state[bridge(BridgeCall.conn)].to_model
                         /\ bs_state'[bridge(BridgeCall.conn)].to_caller
                                = model_pcm16_to_twilio_ulaw_chunks(
                                      BridgeCall.n,
                                      bs_state[bridge(BridgeCall.conn)].to_caller).state
      ]_vars

\* two connections whose bridges have converted in both directions and hold
\* different outbound states
C35_Witness ==
    /\ bs_open = Conns
    /\ \A c \in Conns : bs_state[c].to_model # NoState /\ bs_state[c].to_caller # NoState
    /\ bs_state[1].to_caller # bs_state[2].to_caller


\* ---------------------------------------------------------------- C36
\* C36: whenever ready_to_play changes from False to True, in the event
\* handler or in the output callback, the jitter buffer holds at least
\* PREROLL_CHUNKS chunks at that moment.
C36_ReadyOnlyWithPreroll ==
    [][ (~ready_to_play /\ ready_to_play')
            => Len(output_queue) >= PREROLL_CHUNKS ]_vars

\* the same for the write of the output callback alone
CallbackReadyOnlyWithPreroll ==
    [][ (~ready_to_play /\ ready_to_play' /\ cb_pc = "preroll_set")
            => Len(output_queue) >= PREROLL_CHUNKS ]_vars


\* ---------------------------------------------------------------- C37
Buffered(id) == \E i \in 1..Len(output_queue) : output_queue[i].id = id

\* C37: with an output callback that keeps being invoked, every chunk placed
\* in the jitter buffer eventually leaves it (taken for playback, cleared by
\* an interrupt flush, or dropped as the oldest of a full queue).
C37_ChunksEventuallyLeave ==
    \A id \in 1..MaxDemoChunks : Buffered(id) ~> ~Buffered(id)

\* the same once playback has been released
ReleasedChunksEventuallyLeave ==
    \A id \in 1..MaxDemoChunks : (Buffered(id) /\ []ready_to_play) ~> ~Buffered(id)

\* C38: whenever to_caller still holds frames of an utterance that
\* agent_start opened, is_playing_tts is true.
C38_QueuedFramesImplyPlaying ==
    (to_caller # <<>> /\ utt.st \in {"open", "closed"}) => is_playing_tts

\* while the utterance is still open (no audio_end yet) the flag is up over
\* its queued frames
OpenUtteranceIsPlaying ==
    (to_caller # <<>> /\ utt.st = "open") => is_playing_tts

\* a 'mark' message in twilio_out directly follows the last 'media' message
\* of the audio it marks
MediaBeforeMark ==
    \A j \in 1..Len(twilio_out) :
        twilio_out[j].event = "mark" =>
            /\ j > 1
            /\ twilio_out[j - 1].event = "media"
            /\ twilio_out[j].name \in DOMAIN marked

\* a mark name that was sent and has not been acknowledged yet still has its
\* record, so its first acknowledgment finds it
FirstAckFindsRecord ==
    \A j \in 1..Len(twilio_out) :
        twilio_out[j].event = "mark" =>
            \/ twilio_out[j].name \in DOMAIN mark_data
            \/ \E i \in 1..Len(play_calls) : play_calls[i].name = twilio_out[j].name

\* every record in _mark_data belongs to a 'mark' message that was sent
NoRecordWithoutMark ==
    \A k \in DOMAIN mark_data :
        \E j \in 1..Len(twilio_out) :
            twilio_out[j].event = "mark" /\ twilio_out[j].name = k

\* C39: for each chunk the 'media' message precedes its 'mark' message and
\* the record is in _mark_data when the 'mark' message goes out, so the first
\* acknowledgment of a sent mark finds its record; a record whose 'mark'
\* message failed to send is not left in _mark_data.
C39_MarkRecordsFollowSends ==
    /\ MediaBeforeMark
    /\ FirstAckFindsRecord
    /\ NoRecordWithoutMark

\* the connections whose endpoint has called start() on handler h
StartCalls(h) == {c \in Conns : conn_handler[c] = h}

\* a connection gets its handler, and calls start() on it, only in the step
\* that handles 'start', and it never gets a second one
HandlerOnlyOnStart ==
    [][\A c \in Conns :
          conn_handler'[c] # conn_handler[c]
              => /\ conn_handler[c] = NoHandler
                 /\ conn_pc[c] = "recv"
                 /\ conn_pc'[c] = "starting"]_vars

\* C40: a handler is created and started only in response to 'start', at
\* most one per connection, and no handler instance has start() invoked more
\* than once, also when two connections deliver 'start' for the same
\* outbound call_sid while the first start() is still awaiting.
C40_HandlerStartedOnce ==
    /\ HandlerOnlyOnStart
    /\ [](\A h \in Conns : Cardinality(StartCalls(h)) <= 1)

====
